---- MODULE Spec2Model ----
(***************************************************************************)
(* spinel-arena: the sandbox pool (lib/sandbox: getOrCreateSandbox,        *)
(* executeCode, uploadFileToSandbox, closeSandbox) and the agentic loop of *)
(* POST /api/chat.                                                         *)
(*                                                                         *)
(* A JavaScript string is a sequence of tokens (a token stands for a run   *)
(* of characters), so "" is <<>>, + is \o and truthiness is # <<>>.        *)
(* A nullable value is a sequence of length at most one: null is <<>> and  *)
(* the value v is <<v>>.                                                   *)
(* Every async function is cut at its awaits: one action per resumption.   *)
(***************************************************************************)
EXTENDS Integers, Sequences, FiniteSets, TLC

\* ------------------------------------------------------------------ bounds

\* processes: concurrent requests / concurrent callers of the pool
NumProcs == 2
\* pool calls made in all by the callers of SpecPool
MaxCalls == 3
\* content blocks in one model response
MaxBlocks == 2
\* images one execution produces
MaxImages == 2
\* model calls of a request whose response is drawn from every shape (in
\* the environment "shapes"); later responses hold a single block
MaxVariedCalls == 1
\* executions of a request whose run is drawn from every run (in the
\* environment "runs"); later ones print a line and succeed
MaxVariedExecs == 1
\* chunks one run writes to its standard output and standard error
MaxChunks == 3
\* events (done apart) enqueued on one response stream
MaxEvents == 2
\* calls of handleSubmit that pass its guard
MaxSubmits == 2
\* calls of getSkillContent and getPackageList in all
MaxFetchCalls == 2
\* half hours the clock advances in all
MaxTicks == 3

\* ------------------------------------------------------- program constants

\* let maxIterations = 10
MaxIterations == 10

\* const CACHE_TTL_MS = 60 * 60 * 1000
CACHE_TTL_MS == 60 * 60 * 1000

Procs == 1..NumProcs
Modes == {"vanilla", "spinel"}
Sessions == {<<"s1">>}

\* ---------------------------------------------------------------- strings

Null == <<>>
Some(v) == <<v>>
IsNull(o) == o = <<>>
Val(o) == o[1]

Truthy(s) == s # <<>>

Whitespace == {" ", "\n"}

RECURSIVE Join(_, _)
\* Array.prototype.join
Join(parts, sep) ==
    IF parts = <<>> THEN <<>>
    ELSE IF Len(parts) = 1 THEN parts[1]
    ELSE parts[1] \o sep \o Join(Tail(parts), sep)

RECURSIVE Flatten(_)
\* the strings (or arrays) of a list, one after the other
Flatten(seqs) == IF seqs = <<>> THEN <<>> ELSE Head(seqs) \o Flatten(Tail(seqs))

RECURSIVE TrimStart(_)
TrimStart(s) ==
    IF s # <<>> /\ Head(s) \in Whitespace THEN TrimStart(Tail(s)) ELSE s

RECURSIVE TrimEnd(_)
TrimEnd(s) ==
    IF s # <<>> /\ s[Len(s)] \in Whitespace
    THEN TrimEnd(SubSeq(s, 1, Len(s) - 1)) ELSE s

\* String.prototype.trim
Trim(s) == TrimEnd(TrimStart(s))

\* Array.prototype.filter(Boolean) on an array of strings
FilterBoolean(parts) == SelectSeq(parts, Truthy)

Count(seq, P(_)) == Len(SelectSeq(seq, P))

Last(seq) == seq[Len(seq)]

\* `${sessionId}-${mode}`
\* a pool key made of the session alone
KeyIgnoresMode(sessionId, mode) == sessionId \o <<"-">>

Key(sessionId, mode) == sessionId \o <<"-", mode>>

AllKeys == {Key(s, m) : s \in Sessions, m \in Modes}

\* ------------------------------------------------------------ executeCode

\* What sandbox.runCode does with the submitted code: it rejects (throws,
\* a timeout included) with an Error whose message may be missing or empty,
\* or it resolves with an Execution.
ThrownRuns ==
    [throws : {TRUE}, message : {Null, Some(<<>>), Some(<<"timeout">>)},
     stdout : {<<>>}, stderr : {<<>>}, results : {<<>>}, error : {Null}]

Pngs(k) == [i \in 1..k |-> Some(<<"png", ToString(i)>>)]

ResolvedRuns ==
    [throws : {FALSE}, message : {Null},
     stdout : {<<>>, << <<"4", "\n">> >>},
     stderr : {<<>>},
     results : {Pngs(k) : k \in 0..MaxImages},
     error : {Null, Some(<<>>), Some(<<"ZeroDivisionError">>)}]

AllRuns == ThrownRuns \cup ResolvedRuns

PlainRun ==
    [throws |-> FALSE, message |-> Null, stdout |-> << <<"4", "\n">> >>,
     stderr |-> <<>>, results |-> <<>>, error |-> Null]

FailedRun ==
    [throws |-> FALSE, message |-> Null, stdout |-> <<>>, stderr |-> <<>>,
     results |-> <<>>, error |-> Some(<<"ZeroDivisionError">>)]

\* for (const result of execution.results) if (result.png) images.push(..)
ImagesOf(results) ==
    LET withPng == SelectSeq(results, LAMBDA r : ~IsNull(r) /\ Truthy(Val(r)))
    IN  [i \in 1..Len(withPng) |-> Val(withPng[i])]

\* e.message || "Execution failed"
MessageOrDefault(message) ==
    IF ~IsNull(message) /\ Truthy(Val(message))
    THEN Val(message) ELSE <<"Execution failed">>

\* executeCode with a faulty catch: e.message is passed on as it is.
ExecuteCodeRawMessage(run) ==
    IF run.throws
    THEN [threw |-> FALSE, text |-> <<>>, images |-> <<>>,
          error |-> IF IsNull(run.message) THEN Null ELSE run.message]
    ELSE [threw |-> FALSE,
          text |-> Trim(Join(run.stdout, <<"\n">>) \o Join(run.stderr, <<"\n">>)),
          images |-> ImagesOf(run.results),
          error |-> run.error]

\* executeCode(sandbox, code): the outcome, or threw = TRUE when the call
\* itself rejects (it never does: the catch returns an outcome).
ExecuteCode(run) ==
    IF run.throws
    THEN [threw |-> FALSE, text |-> <<>>, images |-> <<>>,
          error |-> Some(MessageOrDefault(run.message))]
    ELSE [threw |-> FALSE,
          text |-> Trim(Join(run.stdout, <<"\n">>) \o Join(run.stderr, <<"\n">>)),
          images |-> ImagesOf(run.results),
          error |-> run.error]

\* JavaScript's truthiness of result.error (string | null)
ErrorTruthy(result) == ~IsNull(result.error) /\ Truthy(Val(result.error))

ErrorText(result) == IF IsNull(result.error) THEN <<>> ELSE Val(result.error)

\* ------------------------------------------------- tool-result normalizer

Event(type, content, by) == [type |-> type, content |-> content, by |-> by]

\* The events of one execution with the error enqueued before the output.
ResultEventsErrorFirst(result) ==
    (IF ErrorTruthy(result)
     THEN <<Event("error", ErrorText(result), "exec")>> ELSE <<>>)
    \o (IF Truthy(result.text)
        THEN <<Event("output", result.text, "exec")>> ELSE <<>>)
    \o [i \in 1..Len(result.images) |-> Event("image", result.images[i], "exec")]

\* The events of one execution with the if (result.text) test left out.
ResultEventsNoTextTest(result) ==
    <<Event("output", result.text, "exec")>>
    \o (IF ErrorTruthy(result)
        THEN <<Event("error", ErrorText(result), "exec")>> ELSE <<>>)
    \o [i \in 1..Len(result.images) |-> Event("image", result.images[i], "exec")]

\* The output, error and image events of one execution, in enqueue order.
\* `by` names the place that enqueued the event: "block" (a text or code
\* block), "exec", "done" or "catch".
ResultEvents(result) ==
    (IF Truthy(result.text)
     THEN <<Event("output", result.text, "exec")>> ELSE <<>>)
    \o (IF ErrorTruthy(result)
        THEN <<Event("error", ErrorText(result), "exec")>> ELSE <<>>)
    \o [i \in 1..Len(result.images) |-> Event("image", result.images[i], "exec")]

\* The three sections before filter(Boolean)
Sections(result) ==
    << IF Truthy(result.text) THEN <<"Output:\n">> \o result.text ELSE <<>>,
       IF ErrorTruthy(result) THEN <<"Error:\n">> \o ErrorText(result) ELSE <<>>,
       IF Len(result.images) > 0
       THEN <<"[", ToString(Len(result.images)), " plot(s) generated and displayed]">>
       ELSE <<>> >>

Sentinel == <<"Code executed successfully.">>

\* toolResultContent with filter(Boolean) left out.
ToolResultContentNoFilter(result) ==
    LET joined == Join(Sections(result), <<"\n\n">>)
    IN  IF Truthy(joined) THEN joined ELSE Sentinel

\* toolResultContent || "Code executed successfully."
ToolResultContent(result) ==
    LET joined == Join(FilterBoolean(Sections(result)), <<"\n\n">>)
    IN  IF Truthy(joined) THEN joined ELSE Sentinel

\* ------------------------------------------------------------------ state

VARIABLES
    cfg,              \* process.env: E2B_*_TEMPLATE set per mode, MP_API_KEY set
    activeSandboxes,  \* the Map key -> sandbox; 0 stands for no entry
    sandboxes,        \* the remote sandboxes ever created, by handle
    returned,         \* the (key, handle) pairs getOrCreateSandbox has returned
    rq,               \* per process: the locals of the call or request it runs
    env,              \* what the model provider and the sandbox vary in
    cache,            \* spinel-plugin.ts: skillCache, packageCache, Date.now()
                      \* and the calls of getSkillContent / getPackageList
    page,             \* the arena page: its React state, the handleSubmit
                      \* calls and the requests it has dispatched
    execution,        \* one run of sandbox.runCode: the chunks the code
                      \* emitted and the outcome executeCode made of them
    wire              \* one response stream: the events enqueued, the bytes
                      \* not yet read, and the locals of streamChat's reader

\* the state outside the chat route and the sandbox pool
aside == <<cache, page, execution, wire>>

\* the state of the chat route and the sandbox pool
loop == <<cfg, activeSandboxes, sandboxes, returned, rq, env>>

vars ==
    <<cfg, activeSandboxes, sandboxes, returned, rq, env, cache, page,
      execution, wire>>

AllConfigs == [template : [Modes -> BOOLEAN], mpKey : BOOLEAN]

\* no template built yet ("we use the default Python template and install
\* on demand"), MP_API_KEY set
DefaultConfig == [template |-> [m \in Modes |-> FALSE], mpKey |-> TRUE]

UserMessage(text) ==
    [role |-> "user", kind |-> "text", text |-> text, ref |-> 0,
     tool_use_id |-> <<>>]

\* { role: "assistant", content: assistantContent }: the message holds the
\* array itself, not a copy; ref names the array among r.arrays
AssistantMessage(ref) ==
    [role |-> "assistant", kind |-> "blocks", text |-> <<>>, ref |-> ref,
     tool_use_id |-> <<>>]

ToolResultMessage(id, content) ==
    [role |-> "user", kind |-> "tool_result", text |-> content, ref |-> 0,
     tool_use_id |-> id]

\* The request bodies the arena page sends in this model
RequestInputs ==
    { [mode |-> "vanilla", files |-> <<>>],
      [mode |-> "spinel", files |-> << <<"data.csv">>, <<"notes.txt">> >>] }

Idle ==
    [op |-> "none", pc |-> "idle", sessionId |-> <<>>, mode |-> "vanilla",
     files |-> <<>>, messages |-> <<>>, key |-> <<>>, sandbox |-> 0,
     fileIdx |-> 0, status |-> 0, streamOpen |-> FALSE, closed |-> FALSE,
     currentMessages |-> <<>>, maxIterations |-> 0, arrays |-> <<>>,
     response |-> <<>>, idx |-> 0, hasToolUse |-> FALSE,
     allStreamedBlocks |-> <<>>, events |-> <<>>, db |-> <<>>,
     modelCalls |-> 0, outcomes |-> <<>>, calls |-> 0, threw |-> FALSE,
     fn |-> "none", returns |-> 0, closes |-> 0, modelError |-> <<>>,
     rejected |-> {}]

NewSandbox(key, mode) ==
    [key |-> key, mode |-> mode, installed |-> FALSE, secret |-> FALSE,
     killed |-> FALSE, files |-> <<>>]

\* let skillCache = null; let packageCache = null: the module state of
\* spinel-plugin.ts when the server starts; now is Date.now(), calls the
\* calls of getSkillContent and getPackageList made so far
EmptyCache == [skill |-> Null, packages |-> Null, now |-> 0, calls |-> <<>>]

\* the arena page as mounted: useState(initialQuery) without a q parameter,
\* useState([]), useState(false); submits are the calls of handleSubmit
\* that passed its guard, requests the fetches streamChat has made
InitialPage ==
    [input |-> <<>>, files |-> <<>>,
     loading |-> [m \in Modes |-> FALSE],
     messages |-> [m \in Modes |-> <<>>],
     apiHistory |-> <<>>, submits |-> <<>>, requests |-> <<>>]

\* no code has run
NoExecution == [emitted |-> <<>>, result |-> Null]

\* no response is being read; events are the events enqueued (done
\* apart), bytes the bytes not yet read, pending the bytes the TextDecoder
\* holds back, buffer and blocks the locals of streamChat, shown the blocks
\* of the assistant message in the panel; failed: the catch was entered;
\* done: reader.read() has reported the end; cut: some chunk ended inside
\* a frame
NoWire ==
    [events |-> <<>>, bytes |-> <<>>, pending |-> <<>>, buffer |-> <<>>,
     blocks |-> <<>>, shown |-> <<>>, failed |-> FALSE, done |-> FALSE,
     cut |-> FALSE]

\* nothing happens outside the chat route and the pool
AsideIdle ==
    /\ cache = EmptyCache
    /\ page = InitialPage
    /\ execution = NoExecution
    /\ wire = NoWire

\* --------------------------------------------------- the loop's local steps

Enqueue(r, evs) == [r EXCEPT !.events = @ \o evs]

\* The persistence helpers. Each starts a database (or S3) promise and
\* attaches a catch that logs a warning; r.rejected holds the helpers whose
\* promise will reject for this request, r.db the calls made.
PersistenceCalls ==
    {"ensureSession", "saveUploadedFile", "saveUserMessage", "saveAssistantMessage"}

\* The block `i` of the `n`-th model response, of shape `shape`, to the
\* request of process `p`; the provider gives every tool invocation its own
\* id, and what it answers to one request is told apart from what it
\* answers to another by the request's number in the text and in a
\* trailing comment of the code.
Block(p, shape, n, i) ==
    IF shape[i] = "text"
    THEN [type |-> "text",
          text |-> <<"text", ToString(p), ToString(n), ToString(i)>>,
          id |-> <<>>, code |-> <<>>]
    ELSE [type |-> "tool_use", text |-> <<>>,
          id |-> <<"toolu", ToString(p), ToString(n), ToString(i)>>,
          code |-> <<"print(2+2)", "  # ", ToString(p)>>]

Response(p, shape, n) == [i \in 1..Len(shape) |-> Block(p, shape, n, i)]

Shapes(k) == UNION {[1..len -> {"text", "tool_use"}] : len \in 0..k}

\* the shapes the n-th response of a request is drawn from
ResponseShapes(n) ==
    IF env = "shapes" /\ n <= MaxVariedCalls THEN Shapes(MaxBlocks)
    ELSE {<<"text">>, <<"tool_use">>}

\* the runs the k-th execution of a request, made for its n-th response, is
\* drawn from
ExecRuns(n, k) ==
    IF env = "runs" /\ k <= MaxVariedExecs THEN AllRuns
    ELSE IF env = "shapes" /\ n <= MaxVariedCalls THEN {PlainRun, FailedRun}
    ELSE {PlainRun}

\* the messages of the errors a model call is rejected with
ModelErrors == {<<"401 invalid x-api-key">>, <<"529 overloaded">>}

\* allStreamedBlocks.filter(b => b.type === "text").map(b => b.content).join("\n")
TextContent(blocks) ==
    LET texts == SelectSeq(blocks, LAMBDA b : b.type = "text")
    IN  Join([i \in 1..Len(texts) |-> texts[i].content], <<"\n">>)

\* The end of the loop when close() rejects after done is enqueued, so that
\* the catch enqueues an error event as well.
FinishThenCatch(r) ==
    [r EXCEPT !.events = @ \o <<Event("done", <<>>, "done"),
                                Event("error", <<"close failed">>, "catch")>>,
              !.closed = TRUE, !.closes = @ + 1, !.pc = "finished"]

\* The end of the loop with saveAssistantMessage awaited: its rejection is
\* thrown inside the try and reaches the catch.
FinishAwaitsSave(r) ==
    LET save == Truthy(TextContent(r.allStreamedBlocks))
                \/ Len(r.allStreamedBlocks) > 0
        saved == [r EXCEPT !.db = IF save THEN Append(@, "saveAssistantMessage")
                                  ELSE @]
    IN  IF save /\ "saveAssistantMessage" \in r.rejected
        THEN [saved EXCEPT
                !.events = Append(@, Event("error", <<"database unreachable">>,
                                           "catch")),
                !.closed = TRUE, !.closes = @ + 1, !.pc = "finished"]
        ELSE [saved EXCEPT
                !.events = Append(@, Event("done", <<>>, "done")),
                !.closed = TRUE, !.closes = @ + 1, !.pc = "finished"]

\* After the loop: saveAssistantMessage (fire-and-forget), the done event,
\* controller.close().
Finish(r) ==
    LET save == Truthy(TextContent(r.allStreamedBlocks))
                \/ Len(r.allStreamedBlocks) > 0
    IN  [r EXCEPT !.db = IF save THEN Append(@, "saveAssistantMessage") ELSE @,
                  !.events = Append(@, Event("done", <<>>, "done")),
                  !.closed = TRUE, !.closes = @ + 1, !.pc = "finished"]

\* The catch inside start() followed by the done event, as if done were
\* enqueued in a finally block.
AbortWithDone(r, message) ==
    [r EXCEPT !.events = @ \o <<Event("error", message, "catch"),
                                Event("done", <<>>, "done")>>,
              !.closed = TRUE, !.closes = @ + 1, !.pc = "finished"]

\* The catch inside start() when its close() is left out: the error event
\* is enqueued and start() returns with the stream open.
AbortNoClose(r, message) ==
    [r EXCEPT !.events = Append(@, Event("error", message, "catch")),
              !.pc = "finished"]

\* The catch inside start(): one error event, controller.close().
\* closes counts the calls of controller.close().
Abort(r, message) ==
    [r EXCEPT !.events = Append(@, Event("error", message, "catch")),
              !.closed = TRUE, !.closes = @ + 1, !.pc = "finished"]

\* The loop test written while (maxIterations-- >= 0).
LoopTestOffByOne(r) ==
    IF r.maxIterations >= 0
    THEN [r EXCEPT !.maxIterations = @ - 1, !.modelCalls = @ + 1,
                   !.pc = "await_model"]
    ELSE Finish([r EXCEPT !.maxIterations = @ - 1])

\* a loop that reports the exhausted cap as an error
LoopTestCapError(r) ==
    IF r.maxIterations > 0
    THEN [r EXCEPT !.maxIterations = @ - 1, !.modelCalls = @ + 1,
                   !.pc = "await_model"]
    ELSE Abort([r EXCEPT !.maxIterations = @ - 1], <<"iteration cap">>)

\* while (maxIterations-- > 0) { await anthropic.messages.create(..) .. }
\* modelCalls counts the calls issued.
LoopTest(r) ==
    IF r.maxIterations > 0
    THEN [r EXCEPT !.maxIterations = @ - 1, !.modelCalls = @ + 1,
                   !.pc = "await_model"]
    ELSE Finish([r EXCEPT !.maxIterations = @ - 1])

\* a loop that goes round whether or not a tool was used
AfterResponseAlwaysLoops(r) == LoopTest(r)

\* if (!hasToolUse) break; and the loop's test
AfterResponse(r) == IF ~r.hasToolUse THEN Finish(r) ELSE LoopTest(r)

\* saveUserMessage (fire-and-forget), new ReadableStream({ start }): start
\* runs up to its first await, and the Response is returned.
OpenStream(r) ==
    LET last == IF r.messages = <<>> THEN <<>> ELSE <<Last(r.messages)>>
        save == last # <<>> /\ last[1].role = "user" /\ Truthy(last[1].text)
    IN  LoopTest([r EXCEPT !.db = IF save THEN Append(@, "saveUserMessage") ELSE @,
                           !.streamOpen = TRUE, !.status = 200,
                           !.currentMessages = r.messages,
                           !.maxIterations = MaxIterations,
                           !.allStreamedBlocks = <<>>])

\* after the upload loop: the system prompt (awaited for spinel)
AfterUploads(r) ==
    IF r.mode = "spinel" THEN [r EXCEPT !.pc = "prompt"] ELSE OpenStream(r)

\* POST without its upload loop
AfterAcquireSkipsUploads(r) == AfterUploads(r)

\* after getOrCreateSandbox has returned to POST
AfterAcquire(r) ==
    IF Len(r.files) > 0
    THEN [r EXCEPT !.pc = "uploading", !.fileIdx = 1]
    ELSE AfterUploads(r)

\* an outer catch that answers with a stream holding one error event
Respond500AsStream(r) ==
    Abort([r EXCEPT !.streamOpen = TRUE, !.status = 200], <<"setup failed">>)

\* the outer catch of POST: a 500 JSON response, no stream
Respond500(r) == [r EXCEPT !.status = 500, !.pc = "finished"]

\* getOrCreateSandbox returns `id` to its caller; returns counts the pool
\* calls of the process that have returned
GocsReturn(r, id) ==
    IF r.op = "post"
    THEN AfterAcquire([r EXCEPT !.sandbox = id, !.returns = @ + 1])
    ELSE [r EXCEPT !.sandbox = id, !.returns = @ + 1, !.pc = "idle"]

\* an await of a pool function rejects: the rejection reaches the caller
PoolThrow(r) ==
    IF r.op = "post" THEN Respond500(r)
    ELSE [r EXCEPT !.threw = TRUE, !.pc = "idle"]

\* a setup without the install step
SetupPcSkipsInstall(mode, stage) ==
    IF mode = "spinel" /\ cfg.mpKey THEN "injecting" ELSE "register"

\* a setup that injects MP_API_KEY whenever it is set, whatever the mode
SetupPcInjectsEveryMode(mode, stage) ==
    IF stage = "created" /\ ~cfg.template[mode] /\ mode = "spinel"
    THEN "installing"
    ELSE IF cfg.mpKey THEN "injecting"
    ELSE "register"

\* where getOrCreateSandbox awaits next, having passed `stage`
SetupPc(mode, stage) ==
    IF stage = "created" /\ ~cfg.template[mode] /\ mode = "spinel"
    THEN "installing"
    ELSE IF mode = "spinel" /\ cfg.mpKey THEN "injecting"
    ELSE "register"

\* an entry that keeps the payload of an image
StreamedBlockKeepsPayload(ev) == [type |-> ev.type, content |-> ev.content]

\* the entry pushed to allStreamedBlocks beside an enqueued event
StreamedBlock(ev) ==
    [type |-> ev.type,
     content |-> IF ev.type = "image" THEN <<"[base64]">> ELSE ev.content]

\* The resumption after await executeCode(sandbox, code): the events of the
\* result, the tool result, the two messages appended to currentMessages.
\* outcomes logs, per execution, the invocation id, the outcome and the
\* run, the positions of its events in r.events, the model call it belongs
\* to and the sandbox handle executeCode was called with.
AfterExec(r, run, result) ==
    LET block == r.response[r.idx]
        evs == ResultEvents(result)
    IN  IF result.threw THEN Abort(r, <<"executeCode rejected">>)
        ELSE [r EXCEPT
                !.events = @ \o evs,
                !.allStreamedBlocks =
                    @ \o [i \in 1..Len(evs) |-> StreamedBlock(evs[i])],
                !.currentMessages =
                    @ \o << AssistantMessage(Len(r.arrays)),
                            ToolResultMessage(block.id, ToolResultContent(result)) >>,
                !.outcomes = Append(@, [id |-> block.id, run |-> run,
                                        result |-> result,
                                        from |-> Len(r.events) + 1,
                                        to |-> Len(r.events) + Len(evs),
                                        call |-> r.modelCalls,
                                        sandbox |-> r.sandbox]),
                !.idx = @ + 1,
                !.pc = "blocks"]

\* ---------------------------------------------------------------- the pool

\* activeSandboxes.set(key, sandbox); return sandbox
Register(p, r) ==
    /\ activeSandboxes' = [activeSandboxes EXCEPT ![r.key] = r.sandbox]
    /\ returned' = returned \cup {<<r.key, r.sandbox>>}
    /\ rq' = [rq EXCEPT ![p] = GocsReturn(r, r.sandbox)]

\* getOrCreateSandbox without the activeSandboxes.has(key) test: every
\* call creates
GocsEnterAlwaysCreates(p, r) ==
    /\ rq' = [rq EXCEPT ![p] = [r EXCEPT !.pc = "creating"]]
    /\ UNCHANGED returned

\* getOrCreateSandbox from its entry to its first await; fn names the pool
\* function the process has called last
GocsEnter(p, r) ==
    IF activeSandboxes[r.key] # 0
    THEN /\ rq' = [rq EXCEPT ![p] = GocsReturn(r, activeSandboxes[r.key])]
         /\ returned' = returned \cup {<<r.key, activeSandboxes[r.key]>>}
    ELSE /\ rq' = [rq EXCEPT ![p] = [r EXCEPT !.pc = "creating"]]
         /\ UNCHANGED returned

\* a getOrCreateSandbox that sets the map entry as soon as the sandbox is
\* created, before the setup steps
GocsAdvanceRegistersFirst(p, r, stage) ==
    LET next == SetupPc(r.mode, stage)
    IN  IF next = "register" THEN Register(p, r)
        ELSE /\ rq' = [rq EXCEPT ![p] = [r EXCEPT !.pc = next]]
             /\ activeSandboxes' = [activeSandboxes EXCEPT ![r.key] = r.sandbox]
             /\ UNCHANGED returned

\* getOrCreateSandbox from one resolved await to the next await or return
GocsAdvance(p, r, stage) ==
    LET next == SetupPc(r.mode, stage)
    IN  IF next = "register" THEN Register(p, r)
        ELSE /\ rq' = [rq EXCEPT ![p] = [r EXCEPT !.pc = next]]
             /\ UNCHANGED <<activeSandboxes, returned>>

RECURSIVE SumCalls(_)
SumCalls(ps) ==
    IF ps = {} THEN 0
    ELSE LET p == CHOOSE x \in ps : TRUE IN rq[p].calls + SumCalls(ps \ {p})

\* the pool calls made so far by all callers
CallsMade == SumCalls(Procs)

\* a caller invokes getOrCreateSandbox(sessionId, mode)
CallGetOrCreate(p, s, m) ==
    /\ rq[p].op = "caller" /\ rq[p].pc = "idle" /\ CallsMade < MaxCalls
    /\ GocsEnter(p, [rq[p] EXCEPT !.sessionId = s, !.mode = m,
                                  !.key = Key(s, m), !.calls = @ + 1,
                                  !.sandbox = 0, !.fn = "getOrCreateSandbox"])
    /\ UNCHANGED <<aside, cfg, env, activeSandboxes, sandboxes>>

\* await Sandbox.create(..) resolves
GocsCreated(p) ==
    /\ rq[p].pc = "creating"
    /\ sandboxes' = Append(sandboxes, NewSandbox(rq[p].key, rq[p].mode))
    /\ GocsAdvance(p, [rq[p] EXCEPT !.sandbox = Len(sandboxes) + 1], "created")
    /\ UNCHANGED <<aside, cfg, env>>

\* await sandbox.runCode(installScript) resolves
GocsInstalled(p) ==
    /\ rq[p].pc = "installing"
    /\ sandboxes' = [sandboxes EXCEPT ![rq[p].sandbox].installed = TRUE]
    /\ GocsAdvance(p, rq[p], "installed")
    /\ UNCHANGED <<aside, cfg, env>>

\* await sandbox.runCode(`import os; os.environ["MP_API_KEY"] = ..`) resolves
GocsInjected(p) ==
    /\ rq[p].pc = "injecting"
    /\ sandboxes' = [sandboxes EXCEPT ![rq[p].sandbox].secret = TRUE]
    /\ Register(p, rq[p])
    /\ UNCHANGED <<aside, cfg, env>>

\* a caller invokes closeSandbox(sessionId, mode): up to await sandbox.kill()
CallClose(p, s, m) ==
    LET key == Key(s, m)
        id == activeSandboxes[key]
    IN  /\ rq[p].op = "caller" /\ rq[p].pc = "idle" /\ CallsMade < MaxCalls
        /\ IF id # 0
           THEN /\ sandboxes' = [sandboxes EXCEPT ![id].killed = TRUE]
                /\ rq' = [rq EXCEPT ![p] =
                            [@ EXCEPT !.sessionId = s, !.mode = m, !.key = key,
                                      !.calls = @ + 1, !.sandbox = id,
                                      !.fn = "closeSandbox",
                                      !.pc = "killing"]]
           ELSE /\ rq' = [rq EXCEPT ![p] =
                            [@ EXCEPT !.sessionId = s, !.mode = m, !.key = key,
                                      !.calls = @ + 1, !.sandbox = 0,
                                      !.fn = "closeSandbox",
                                      !.returns = @ + 1]]
                /\ UNCHANGED sandboxes
        /\ UNCHANGED <<aside, cfg, env, activeSandboxes, returned>>

\* closeSandbox without its activeSandboxes.delete(key)
CloseDoneKeepsEntry(p) ==
    /\ rq[p].pc = "killing"
    /\ rq' = [rq EXCEPT ![p] = [@ EXCEPT !.returns = @ + 1, !.pc = "idle"]]
    /\ UNCHANGED <<aside, cfg, env, activeSandboxes, sandboxes, returned>>

\* await sandbox.kill() resolves: activeSandboxes.delete(key)
CloseDone(p) ==
    /\ rq[p].pc = "killing"
    /\ activeSandboxes' = [activeSandboxes EXCEPT ![rq[p].key] = 0]
    /\ rq' = [rq EXCEPT ![p] = [@ EXCEPT !.returns = @ + 1, !.pc = "idle"]]
    /\ UNCHANGED <<aside, cfg, env, sandboxes, returned>>

\* an await of getOrCreateSandbox or closeSandbox rejects
PoolStepFails(p) ==
    /\ rq[p].pc \in {"creating", "installing", "injecting", "killing"}
    /\ rq' = [rq EXCEPT ![p] = PoolThrow(@)]
    /\ UNCHANGED <<aside, cfg, env, activeSandboxes, sandboxes, returned>>

\* ------------------------------------------------------------------- POST

\* POST from request.json() to the await inside getOrCreateSandbox:
\* ensureSession and saveUploadedFile are fire-and-forget
PostStart(p) ==
    /\ rq[p].op = "post" /\ rq[p].pc = "start"
    /\ GocsEnter(p, [rq[p] EXCEPT
            !.db = <<"ensureSession">>
                   \o [i \in 1..Len(rq[p].files) |-> "saveUploadedFile"],
            !.key = Key(rq[p].sessionId, rq[p].mode),
            !.fn = "getOrCreateSandbox"])
    /\ UNCHANGED <<aside, cfg, env, activeSandboxes, sandboxes>>

\* await uploadFileToSandbox(sandbox, file.name, buffer) resolves
UploadDone(p) ==
    LET r == rq[p]
        path == <<"/home/user/">> \o r.files[r.fileIdx]
    IN  /\ r.pc = "uploading"
        /\ sandboxes' = [sandboxes EXCEPT ![r.sandbox].files = Append(@, path)]
        /\ rq' = [rq EXCEPT ![p] =
                    IF r.fileIdx < Len(r.files)
                    THEN [r EXCEPT !.fileIdx = @ + 1]
                    ELSE AfterUploads(r)]
        /\ UNCHANGED <<aside, cfg, env, activeSandboxes, returned>>

\* sandbox.files.write rejects
UploadFails(p) ==
    /\ rq[p].pc = "uploading"
    /\ rq' = [rq EXCEPT ![p] = Respond500(@)]
    /\ UNCHANGED <<aside, cfg, env, activeSandboxes, sandboxes, returned>>

\* await getSpinelSystemPrompt() resolves
PromptBuilt(p) ==
    /\ rq[p].pc = "prompt"
    /\ rq' = [rq EXCEPT ![p] = OpenStream(@)]
    /\ UNCHANGED <<aside, cfg, env, activeSandboxes, sandboxes, returned>>

\* await anthropic.messages.create(..) resolves with a response
ModelReturns(p, shape) ==
    LET r == rq[p]
    IN  /\ r.pc = "await_model"
        /\ shape \in ResponseShapes(r.modelCalls)
        /\ rq' = [rq EXCEPT ![p] =
                    [r EXCEPT !.response = Response(p, shape, r.modelCalls),
                              !.idx = 1, !.hasToolUse = FALSE,
                              !.arrays = Append(@, <<>>),
                              !.pc = "blocks"]]
        /\ UNCHANGED <<aside, cfg, env, activeSandboxes, sandboxes, returned>>

\* await anthropic.messages.create(..) rejects with an Error whose message
\* is msg; modelError keeps the message thrown
ModelThrows(p, msg) ==
    /\ rq[p].pc = "await_model"
    /\ rq' = [rq EXCEPT ![p] = Abort([@ EXCEPT !.modelError = Some(msg)], msg)]
    /\ UNCHANGED <<aside, cfg, env, activeSandboxes, sandboxes, returned>>

\* a text block: assistantContent.push(block), the text event
ProcessText(p) ==
    LET r == rq[p]
    IN  /\ r.pc = "blocks" /\ r.idx <= Len(r.response)
        /\ r.response[r.idx].type = "text"
        /\ rq' = [rq EXCEPT ![p] =
                    [r EXCEPT
                       !.arrays[Len(r.arrays)] = Append(@, r.response[r.idx]),
                       !.allStreamedBlocks =
                           Append(@, [type |-> "text",
                                      content |-> r.response[r.idx].text]),
                       !.events = Append(@, Event("text", r.response[r.idx].text,
                                                  "block")),
                       !.idx = @ + 1]]
        /\ UNCHANGED <<aside, cfg, env, activeSandboxes, sandboxes, returned>>

\* a tool_use block whose executeCode(sandbox, code) is not awaited: the
\* loop goes on to the next block while the execution runs
StartToolNoAwait(p) ==
    LET r == rq[p]
    IN  /\ r.pc = "blocks" /\ r.idx <= Len(r.response)
        /\ r.response[r.idx].type = "tool_use"
        /\ rq' = [rq EXCEPT ![p] =
                    [r EXCEPT
                       !.arrays[Len(r.arrays)] = Append(@, r.response[r.idx]),
                       !.hasToolUse = TRUE,
                       !.events = Append(@, Event("code", r.response[r.idx].code,
                                                  "block")),
                       !.idx = @ + 1]]
        /\ UNCHANGED <<aside, cfg, env, activeSandboxes, sandboxes, returned>>

\* a tool_use block up to await executeCode(sandbox, code)
StartTool(p) ==
    LET r == rq[p]
    IN  /\ r.pc = "blocks" /\ r.idx <= Len(r.response)
        /\ r.response[r.idx].type = "tool_use"
        /\ rq' = [rq EXCEPT ![p] =
                    [r EXCEPT
                       !.arrays[Len(r.arrays)] = Append(@, r.response[r.idx]),
                       !.hasToolUse = TRUE,
                       !.allStreamedBlocks =
                           Append(@, [type |-> "code",
                                      content |-> r.response[r.idx].code]),
                       !.events = Append(@, Event("code", r.response[r.idx].code,
                                                  "block")),
                       !.pc = "await_exec"]]
        /\ UNCHANGED <<aside, cfg, env, activeSandboxes, sandboxes, returned>>

\* await executeCode(sandbox, code) resolves
ExecReturns(p, run) ==
    /\ rq[p].pc = "await_exec"
    /\ run \in ExecRuns(rq[p].modelCalls, Len(rq[p].outcomes) + 1)
    /\ rq' = [rq EXCEPT ![p] = AfterExec(@, run, ExecuteCode(run))]
    /\ UNCHANGED <<aside, cfg, env, activeSandboxes, sandboxes, returned>>

\* the for loop over response.content ends: break or the next iteration
EndBlocks(p) ==
    /\ rq[p].pc = "blocks" /\ rq[p].idx > Len(rq[p].response)
    /\ rq' = [rq EXCEPT ![p] = AfterResponse(@)]
    /\ UNCHANGED <<aside, cfg, env, activeSandboxes, sandboxes, returned>>

\* -------------------------------------------------------- specifications

InitPool ==
    /\ activeSandboxes = [k \in AllKeys |-> 0]
    /\ sandboxes = <<>>
    /\ returned = {}

\* the persistence helpers that may fail in an environment
Rejections == IF env = "db" THEN SUBSET PersistenceCalls ELSE {{}}

\* one request to POST /api/chat; the environment varies the shapes of the
\* responses, the runs of the code, or the fate of the persistence calls
Init ==
    /\ InitPool
    /\ AsideIdle
    /\ cfg = DefaultConfig
    /\ env \in {"shapes", "runs", "db"}
    /\ \E in \in RequestInputs, rej \in Rejections :
         rq = [p \in Procs |->
                 IF p = 1
                 THEN [Idle EXCEPT !.op = "post", !.pc = "start",
                                   !.sessionId = <<"s1">>, !.mode = in.mode,
                                   !.files = in.files,
                                   !.messages = <<UserMessage(<<"compute 2+2">>)>>,
                                   !.rejected = rej]
                 ELSE Idle]

Next ==
    \E p \in Procs :
        \/ PostStart(p)
        \/ GocsCreated(p)
        \/ GocsInstalled(p)
        \/ GocsInjected(p)
        \/ PoolStepFails(p)
        \/ UploadDone(p)
        \/ UploadFails(p)
        \/ PromptBuilt(p)
        \/ \E shape \in Shapes(MaxBlocks) : ModelReturns(p, shape)
        \/ \E msg \in ModelErrors : ModelThrows(p, msg)
        \/ ProcessText(p)
        \/ StartTool(p)
        \/ \E run \in AllRuns : ExecReturns(p, run)
        \/ EndBlocks(p)

Spec == Init /\ [][Next]_vars

\* two concurrent requests of one session to POST /api/chat, one per mode,
\* as the arena page sends them for one query; the provider answers with
\* one block per response and the code runs without error
InitTwo ==
    /\ InitPool
    /\ AsideIdle
    /\ cfg = DefaultConfig
    /\ env = "plain"
    /\ rq = [p \in Procs |->
               IF p \in 1..2
               THEN LET in == CHOOSE x \in RequestInputs :
                                x.mode = (IF p = 1 THEN "vanilla" ELSE "spinel")
                    IN  [Idle EXCEPT !.op = "post", !.pc = "start",
                                     !.sessionId = <<"s1">>, !.mode = in.mode,
                                     !.files = in.files,
                                     !.messages = <<UserMessage(<<"compute 2+2">>)>>]
               ELSE Idle]

SpecTwo == InitTwo /\ [][Next]_vars

\* Every await of the request settles: the provider answers or rejects the
\* model call, the sandbox service answers or rejects, and the event loop
\* then runs the continuation.
SpecFair == Spec /\ WF_vars(Next)

\* concurrent callers of getOrCreateSandbox and closeSandbox
InitCallers ==
    /\ InitPool
    /\ AsideIdle
    /\ cfg \in AllConfigs
    /\ env = "runs"
    /\ rq = [p \in Procs |-> [Idle EXCEPT !.op = "caller"]]

NextPool ==
    \E p \in Procs :
        \/ \E s \in Sessions, m \in Modes : CallGetOrCreate(p, s, m)
        \/ \E s \in Sessions, m \in Modes : CallClose(p, s, m)
        \/ GocsCreated(p)
        \/ GocsInstalled(p)
        \/ GocsInjected(p)
        \/ CloseDone(p)
        \/ PoolStepFails(p)

SpecPool == InitCallers /\ [][NextPool]_vars

\* ------------------------------------------- spinel-plugin.ts: the caches

Docs == {"skill", "packages"}

\* the clock advances in steps of half the time-to-live
HalfTtl == CACHE_TTL_MS \div 2

\* FALLBACK_SKILL_CONTENT
FALLBACK_SKILL_CONTENT == <<"<skills>", "embedded rules", "</skills>">>

\* FALLBACK_PACKAGES
FALLBACK_PACKAGES ==
    << <<"pymatgen">>, <<"mp-api">>, <<"ase">>, <<"pycalphad">>, <<"matgl">>,
       <<"cellpy">>, <<"galvani">>, <<"impedance">>, <<"tifffile">>,
       <<"jcamp">>, <<"brukeropusreader">> >>

Fallback(doc) == IF doc = "skill" THEN FALLBACK_SKILL_CONTENT ELSE FALLBACK_PACKAGES

\* The bodies GitHub may serve for SKILL.md, text being its lines: with a
\* YAML frontmatter, without one, with an opening --- that is never closed,
\* and empty.
SkillBodies ==
    { [text |-> <<"---\n", "name: spinel\n", "---\n", "\n",
                  "<skills>", "live rules", "</skills>">>],
      [text |-> <<"<skills>", "live rules", "</skills>">>],
      [text |-> <<"---\n", "<skills>", "live rules", "</skills>">>],
      [text |-> <<>>] }

\* md.match(/^---\r?\n[\s\S]*?\r?\n---\r?\n/): an opening --- line and
\* the first later --- line that follows at least one other line;
\* md.slice(match[0].length).trimStart()
StripFrontmatter(md) ==
    LET closing == {j \in 3..Len(md) : md[j] = "---\n"}
    IN  IF Len(md) >= 3 /\ md[1] = "---\n" /\ closing # {}
        THEN LET j == CHOOSE x \in closing : \A y \in closing : x <= y
             IN  TrimStart(SubSeq(md, j + 1, Len(md)))
        ELSE md

CommentTokens == {"# optional", "# client"}
QuoteTokens == {"\"", "'"}
SpecifierTokens == {">=2024.1", "==0.9"}

\* The bodies GitHub may serve for setup.py: requirements is the text the
\* regular expression REQUIREMENTS\s*=\s*\[([\s\S]*?)\] captures, as lines
\* of tokens, or Null when the text has no such list.
Manifests ==
    { [requirements |-> Null],
      [requirements |-> Some(<<>>)],
      [requirements |->
          Some(<< <<" ", "\"", "pymatgen", ">=2024.1", "\"", ",">>,
                  <<" ", "# optional">>,
                  <<" ", "'", "mp-api", "'", ",", " ", "# client">>,
                  <<>> >>)] }

\* line.replace(/#.*$/, "").trim()
StripComment(line) ==
    LET at == {j \in 1..Len(line) : line[j] \in CommentTokens}
    IN  Trim(IF at = {} THEN line
             ELSE SubSeq(line, 1, (CHOOSE x \in at : \A y \in at : x <= y) - 1))

\* line.replace(/['"]/g, "").replace(/,\s*$/, "") and then
\* pkg.replace(/[><=!~].*$/, "").trim()
PackageName(line) ==
    LET unquoted == SelectSeq(line, LAMBDA t : t \notin QuoteTokens)
        ended == TrimEnd(unquoted)
        noComma == IF ended # <<>> /\ Last(ended) = ","
                   THEN SubSeq(unquoted, 1, Len(ended) - 1) ELSE unquoted
        at == {j \in 1..Len(noComma) : noComma[j] \in SpecifierTokens}
    IN  Trim(IF at = {} THEN noComma
             ELSE SubSeq(noComma, 1, (CHOOSE x \in at : \A y \in at : x <= y) - 1))

\* match[1].split("\n").map(..).filter(startsWith quote).map(..).filter(Boolean)
ParsePackages(lines) ==
    LET stripped == [i \in 1..Len(lines) |-> StripComment(lines[i])]
        quoted == SelectSeq(stripped, LAMBDA l : l # <<>> /\ Head(l) \in QuoteTokens)
    IN  FilterBoolean([i \in 1..Len(quoted) |-> PackageName(quoted[i])])

Bodies(doc) == IF doc = "skill" THEN SkillBodies ELSE Manifests

\* isFresh with <= in place of <
IsFreshInclusive(entry) ==
    ~IsNull(entry) /\ cache.now - Val(entry).fetchedAt <= CACHE_TTL_MS

\* entry !== null && Date.now() - entry.fetchedAt < CACHE_TTL_MS
IsFresh(entry) ==
    ~IsNull(entry) /\ cache.now - Val(entry).fetchedAt < CACHE_TTL_MS

\* A call: the document asked for, where it stands, what it returned, and
\* what the network did to it (net: the fetch; read: res.text(); body: the
\* text read).
NewCall(doc) ==
    [doc |-> doc, pc |-> "fetching", result |-> Null, fetched |-> TRUE,
     net |-> "pending", read |-> "none", body |-> Null]

\* the call returns value
Return(call, value) == [call EXCEPT !.pc = "returned", !.result = Some(value)]

\* getSkillContent() / getPackageList() up to the first await
Get(doc) ==
    /\ Len(cache.calls) < MaxFetchCalls
    /\ cache' = [cache EXCEPT !.calls =
                    Append(@, IF IsFresh(cache[doc])
                              THEN [Return(NewCall(doc), Val(cache[doc]).value)
                                      EXCEPT !.fetched = FALSE, !.net = "none"]
                              ELSE NewCall(doc))]
    /\ UNCHANGED <<loop, page, execution, wire>>

GetSkillContent == Get("skill")

GetPackageList == Get("packages")

\* a catch that stores the fallback as the cache entry
FetchRejectsCachesFallback(i) ==
    /\ cache.calls[i].pc = "fetching"
    /\ cache' = [cache EXCEPT
                  ![cache.calls[i].doc] =
                      Some([value |-> Fallback(cache.calls[i].doc),
                            fetchedAt |-> cache.now]),
                  !.calls[i] =
                      Return([@ EXCEPT !.net = "rejected"], Fallback(@.doc))]
    /\ UNCHANGED <<loop, page, execution, wire>>

\* await fetch(..) rejects: the network fails or AbortSignal.timeout fires
FetchRejects(i) ==
    /\ cache.calls[i].pc = "fetching"
    /\ cache' = [cache EXCEPT !.calls[i] =
                    Return([@ EXCEPT !.net = "rejected"], Fallback(@.doc))]
    /\ UNCHANGED <<loop, page, execution, wire>>

\* await fetch(..) resolves and the status is taken for OK whatever it is
FetchResolvesAnyStatus(i, ok) ==
    /\ cache.calls[i].pc = "fetching"
    /\ cache' = [cache EXCEPT !.calls[i] =
                    [@ EXCEPT !.net = IF ok THEN "ok" ELSE "not ok",
                              !.pc = "reading"]]
    /\ UNCHANGED <<loop, page, execution, wire>>

\* await fetch(..) resolves: if (!res.ok) throw, caught by the catch
FetchResolves(i, ok) ==
    /\ cache.calls[i].pc = "fetching"
    /\ cache' = [cache EXCEPT !.calls[i] =
                    IF ok THEN [@ EXCEPT !.net = "ok", !.pc = "reading"]
                    ELSE Return([@ EXCEPT !.net = "not ok"], Fallback(@.doc))]
    /\ UNCHANGED <<loop, page, execution, wire>>

\* await res.text() rejects
BodyRejects(i) ==
    /\ cache.calls[i].pc = "reading"
    /\ cache' = [cache EXCEPT !.calls[i] =
                    Return([@ EXCEPT !.read = "rejected"], Fallback(@.doc))]
    /\ UNCHANGED <<loop, page, execution, wire>>

\* await res.text() resolves with body: the value is computed, the cache
\* entry written with Date.now() and the value returned; a manifest
\* without a REQUIREMENTS list throws into the catch
BodyRead(i, body) ==
    LET call == [cache.calls[i] EXCEPT !.read = "done", !.body = Some(body)]
        parsed == call.doc = "skill" \/ ~IsNull(body.requirements)
        value == IF call.doc = "skill" THEN StripFrontmatter(body.text)
                 ELSE ParsePackages(Val(body.requirements))
    IN  /\ cache.calls[i].pc = "reading"
        /\ body \in Bodies(call.doc)
        /\ cache' = IF parsed
                    THEN [cache EXCEPT
                            ![call.doc] = Some([value |-> value,
                                                fetchedAt |-> cache.now]),
                            !.calls[i] = Return(call, value)]
                    ELSE [cache EXCEPT
                            !.calls[i] = Return(call, Fallback(call.doc))]
        /\ UNCHANGED <<loop, page, execution, wire>>

\* half an hour passes
Tick ==
    /\ cache.now < MaxTicks * HalfTtl
    /\ cache' = [cache EXCEPT !.now = @ + HalfTtl]
    /\ UNCHANGED <<loop, page, execution, wire>>

\* the route and the pool at rest
LoopIdle ==
    /\ InitPool
    /\ cfg = DefaultConfig
    /\ env = "plain"
    /\ rq = [p \in Procs |-> Idle]

InitCache == LoopIdle /\ AsideIdle

NextCache ==
    \/ GetSkillContent
    \/ GetPackageList
    \/ Tick
    \/ \E i \in 1..Len(cache.calls) : FetchRejects(i)
    \/ \E i \in 1..Len(cache.calls), ok \in BOOLEAN : FetchResolves(i, ok)
    \/ \E i \in 1..Len(cache.calls) : BodyRejects(i)
    \/ \E i \in 1..Len(cache.calls) :
          \E body \in Bodies(cache.calls[i].doc) : BodyRead(i, body)

SpecCache == InitCache /\ [][NextCache]_vars

\* ----------------------------------------------------------- the arena page

\* what the user types into the textarea: a query, or blanks
Queries == {<<"What is LiFePO4?">>, <<" ">>}

\* what the user selects in FileUpload
FileChoices == {<<>>, << <<"data.csv">> >>}

\* const [sessionId] = useState(generateSessionId)
PageSession == <<"s1">>

\* the user message shown in both panels
ChatUserMessage(query, files) ==
    [role |-> "user",
     blocks |-> <<[type |-> "text", content |-> query]>>
                \o [i \in 1..Len(files) |->
                       [type |-> "text", content |-> <<" (file) ">> \o files[i]]]]

\* the assistant message a finished stream leaves in its panel, or the
\* error block of streamChat's catch
ChatAssistantMessage(ok) ==
    [role |-> "assistant",
     blocks |-> <<IF ok THEN [type |-> "text", content |-> <<"reply">>]
                  ELSE [type |-> "error",
                        content |-> <<"API request failed">>]>>]

\* files.length > 0 ? `\n\nUploaded files: ${..join(", ")}. Files are ..` : ""
FileContext(files) ==
    IF Len(files) > 0
    THEN <<"\n\nUploaded files: ">> \o Join(files, <<", ">>)
         \o <<". Files are available at /home/user/{filename}.">>
    ELSE <<>>

\* { role: "user", content: query + fileContext }
ApiMessage(query, files) ==
    [role |-> "user", content |-> query \o FileContext(files)]

\* { name: f.name, content: await fileToBase64(f) }: the part of the data
\* URL after the comma
FilePayloads(files) ==
    [i \in 1..Len(files) |->
        [name |-> files[i], content |-> <<"base64 of ">> \o files[i]]]

\* the body streamChat posts to /api/chat for the submit `i` of `pg`
RequestBody(pg, i, mode) ==
    LET s == pg.submits[i]
    IN  [submit |-> i, pc |-> "in flight", mode |-> mode,
         messages |-> Append(s.apiHistory, ApiMessage(s.query, s.files)),
         sessionId |-> PageSession,
         files |-> IF Len(s.files) > 0 THEN Some(FilePayloads(s.files))
                   ELSE Null]

\* handleSubmit after await Promise.all: setApiHistory(updatedHistory),
\* setFiles([]), and the two streamChat calls up to their await fetch
\* (setLoading(true), the POST); query, files and apiHistory are those of
\* the render in which handleSubmit was called
Dispatch(pg, i) ==
    [pg EXCEPT !.apiHistory =
                  Append(pg.submits[i].apiHistory,
                         ApiMessage(pg.submits[i].query, pg.submits[i].files)),
               !.files = <<>>,
               !.requests = @ \o <<RequestBody(pg, i, "vanilla"),
                                   RequestBody(pg, i, "spinel")>>,
               !.loading = [m \in Modes |-> TRUE],
               !.submits[i].pc = "dispatched"]

\* onChange of the textarea
Type(q) ==
    /\ page.input # q
    /\ page' = [page EXCEPT !.input = q]
    /\ UNCHANGED <<loop, cache, execution, wire>>

\* onFilesChange of FileUpload
SelectFiles(fs) ==
    /\ page.files # fs
    /\ page' = [page EXCEPT !.files = fs]
    /\ UNCHANGED <<loop, cache, execution, wire>>

\* handleSubmit (the form's submit or Enter in the textarea) up to its
\* await: a call that fails the guard returns and changes nothing; with no
\* files Promise.all([]) resolves without letting an event in between
HandleSubmit ==
    LET query == Trim(page.input)
        i == Len(page.submits) + 1
        shown == [m \in Modes |->
                    Append(page.messages[m], ChatUserMessage(query, page.files))]
        called == [page EXCEPT
                     !.messages = shown,
                     !.input = <<>>,
                     !.submits = Append(@, [query |-> query,
                                            files |-> page.files,
                                            apiHistory |-> page.apiHistory,
                                            pc |-> "reading"])]
    IN  /\ i <= MaxSubmits
        /\ ~(query = <<>> \/ page.loading["vanilla"] \/ page.loading["spinel"])
        /\ page' = IF page.files = <<>> THEN Dispatch(called, i) ELSE called
        /\ UNCHANGED <<loop, cache, execution, wire>>

\* every FileReader of the submit has fired onload
FilesRead(i) ==
    /\ page.submits[i].pc = "reading"
    /\ page' = Dispatch(page, i)
    /\ UNCHANGED <<loop, cache, execution, wire>>

\* a FileReader fires onerror: Promise.all rejects and handleSubmit, which
\* has no catch, rejects with it
FilesFail(i) ==
    /\ page.submits[i].pc = "reading"
    /\ page' = [page EXCEPT !.submits[i].pc = "rejected"]
    /\ UNCHANGED <<loop, cache, execution, wire>>

\* streamChat from the response on: the stream is read to its end (ok), or
\* the fetch fails or answers with a non-OK status; setLoading(false)
RequestEnds(j, ok) ==
    /\ page.requests[j].pc = "in flight"
    /\ page' = [page EXCEPT
                  !.requests[j].pc = "done",
                  !.messages[page.requests[j].mode] =
                      Append(@, ChatAssistantMessage(ok)),
                  !.loading[page.requests[j].mode] = FALSE]
    /\ UNCHANGED <<loop, cache, execution, wire>>

InitPage == LoopIdle /\ AsideIdle

NextPage ==
    \/ \E q \in Queries : Type(q)
    \/ \E fs \in FileChoices : SelectFiles(fs)
    \/ HandleSubmit
    \/ \E i \in 1..Len(page.submits) : FilesRead(i)
    \/ \E i \in 1..Len(page.submits) : FilesFail(i)
    \/ \E j \in 1..Len(page.requests), ok \in BOOLEAN : RequestEnds(j, ok)

SpecPage == InitPage /\ [][NextPage]_vars

\* ------------------------------------------------- one run of executeCode

\* what the executed code writes at one time: the stream and the text
Chunks == [stream : {"stdout", "stderr"}, text : {<<"a">>, <<"b">>}]

\* the runs of MaxChunks chunks at most, in the order the code emits them
Emissions == UNION {[1..n -> Chunks] : n \in 0..MaxChunks}

\* execution.logs.stdout / execution.logs.stderr: the texts of the chunks
\* of one stream, in the order emitted
LogsOf(emitted, stream) ==
    LET own == SelectSeq(emitted, LAMBDA c : c.stream = stream)
    IN  [i \in 1..Len(own) |-> own[i].text]

\* the Execution sandbox.runCode resolves with
ExecutionOf(emitted) ==
    [throws |-> FALSE, message |-> Null,
     stdout |-> LogsOf(emitted, "stdout"),
     stderr |-> LogsOf(emitted, "stderr"),
     results |-> <<>>, error |-> Null]

\* executeCode(sandbox, code) for a code that emits execution.emitted
RunCode ==
    /\ IsNull(execution.result)
    /\ execution' = [execution EXCEPT
                       !.result =
                           Some(ExecuteCode(ExecutionOf(execution.emitted)))]
    /\ UNCHANGED <<loop, cache, page, wire>>

InitExec ==
    /\ LoopIdle
    /\ cache = EmptyCache /\ page = InitialPage /\ wire = NoWire
    /\ \E emitted \in Emissions :
          execution = [emitted |-> emitted, result |-> Null]

NextExec == RunCode

SpecExec == InitExec /\ [][NextExec]_vars

\* ------------------------------------------- one response stream, read

\* the events a request may enqueue, their contents as characters: a
\* letter, a blank line, a two-byte character, and a quote, a backslash
\* and the frame prefix
StreamedEvents ==
    { [type |-> "text", content |-> <<"a">>],
      [type |-> "code", content |-> <<"\n", "\n">>],
      [type |-> "error", content |-> <<"e-acute">>],
      [type |-> "output", content |-> <<"\"", "\\", "n", "data:", " ">>] }

\* the events one request enqueues before done
EventSeqs == UNION {[1..n -> StreamedEvents] : n \in 0..MaxEvents}

\* JSON.stringify of one character of a string
EscapeChar(c) ==
    IF c = "\n" THEN <<"\\", "n">>
    ELSE IF c \in {"\"", "\\"} THEN <<"\\", c>>
    ELSE <<c>>

\* JSON.stringify of a string, without its quotes
JsonString(str) == Flatten([i \in 1..Len(str) |-> EscapeChar(str[i])])

RECURSIVE Unescape(_)
\* JSON.parse of the inside of a string literal
Unescape(str) ==
    IF str = <<>> THEN <<>>
    ELSE IF Head(str) = "\\" /\ Len(str) >= 2
    THEN <<IF str[2] = "n" THEN "\n" ELSE str[2]>>
         \o Unescape(SubSeq(str, 3, Len(str)))
    ELSE <<Head(str)>> \o Unescape(Tail(str))

JsonOpen == "{\"type\":\""
JsonMid == "\",\"content\":\""
JsonClose == "\"}"

\* JSON.stringify({ type, content }) and JSON.stringify({ type: "done" })
JsonStringify(ev) ==
    IF ev.type = "done" THEN <<JsonOpen, "done", JsonClose>>
    ELSE <<JsonOpen, ev.type, JsonMid>> \o JsonString(ev.content)
         \o <<JsonClose>>

\* JSON.parse(text): the event, or Null when it throws
JsonParse(text) ==
    IF Len(text) = 3 /\ text[1] = JsonOpen /\ text[3] = JsonClose
    THEN Some([type |-> text[2], content |-> <<>>])
    ELSE IF /\ Len(text) >= 4 /\ text[1] = JsonOpen /\ text[3] = JsonMid
            /\ text[Len(text)] = JsonClose
    THEN Some([type |-> text[2],
               content |-> Unescape(SubSeq(text, 4, Len(text) - 1))])
    ELSE Null

RECURSIVE Utf8(_)
\* encoder.encode(text): the two-byte character becomes two bytes
Utf8(text) ==
    IF text = <<>> THEN <<>>
    ELSE (IF Head(text) = "e-acute" THEN <<"C3", "A9">> ELSE <<Head(text)>>)
         \o Utf8(Tail(text))

\* encoder.encode(`data: ${JSON.stringify(ev)}\n\n`)
Frame(ev) == Utf8(<<"data:", " ">> \o JsonStringify(ev) \o <<"\n", "\n">>)

\* the bytes of a stream: the frames of its events, and that of done
StreamBytes(events, withDone) ==
    Flatten([i \in 1..Len(events) |-> Frame(events[i])])
    \o (IF withDone THEN Frame([type |-> "done"]) ELSE <<>>)

RECURSIVE DecodeNoStream(_)
\* decoder.decode(value): an incomplete character at the end of the chunk
\* becomes U+FFFD
DecodeNoStream(bytes) ==
    IF bytes = <<>> THEN [text |-> <<>>, pending |-> <<>>]
    ELSE IF Head(bytes) = "C3" /\ Len(bytes) >= 2 /\ bytes[2] = "A9"
    THEN LET rest == DecodeNoStream(SubSeq(bytes, 3, Len(bytes)))
         IN  [rest EXCEPT !.text = <<"e-acute">> \o @]
    ELSE LET rest == DecodeNoStream(Tail(bytes))
         IN  [rest EXCEPT !.text =
                <<IF Head(bytes) \in {"C3", "A9"} THEN "U+FFFD"
                  ELSE Head(bytes)>> \o @]

RECURSIVE Decode(_)
\* decoder.decode(value, { stream: true }) of the bytes held back and the
\* chunk: the text, and the bytes held back for the next call
Decode(bytes) ==
    IF bytes = <<>> THEN [text |-> <<>>, pending |-> <<>>]
    ELSE IF bytes = <<"C3">> THEN [text |-> <<>>, pending |-> bytes]
    ELSE IF Head(bytes) = "C3" /\ bytes[2] = "A9"
    THEN LET rest == Decode(SubSeq(bytes, 3, Len(bytes)))
         IN  [rest EXCEPT !.text = <<"e-acute">> \o @]
    ELSE LET rest == Decode(Tail(bytes))
         IN  [rest EXCEPT !.text =
                <<IF Head(bytes) \in {"C3", "A9"} THEN "U+FFFD"
                  ELSE Head(bytes)>> \o @]

RECURSIVE SplitFrames(_)
\* buffer.split("\n\n")
SplitFrames(text) ==
    LET at == {i \in 1..(Len(text) - 1) : text[i] = "\n" /\ text[i + 1] = "\n"}
    IN  IF at = {} THEN <<text>>
        ELSE LET i == CHOOSE x \in at : \A y \in at : x <= y
             IN  <<SubSeq(text, 1, i - 1)>>
                 \o SplitFrames(SubSeq(text, i + 2, Len(text)))

\* a reader that forgets the unfinished frame
CarryNothing(pieces) == <<>>

\* buffer = lines.pop() || ""
Carry(pieces) == Last(pieces)

\* line.startsWith("data: ")
StartsWithData(line) == Len(line) >= 2 /\ line[1] = "data:" /\ line[2] = " "

RECURSIVE ReadLines(_, _)
\* for (const line of lines) { .. blocks.push(data); setMessages(..) }: the
\* blocks after the lines, and whether JSON.parse threw on the way
ReadLines(lines, blocks) ==
    IF lines = <<>> THEN [blocks |-> blocks, failed |-> FALSE]
    ELSE IF ~StartsWithData(Head(lines)) THEN ReadLines(Tail(lines), blocks)
    ELSE LET data == JsonParse(SubSeq(Head(lines), 3, Len(Head(lines))))
         IN  IF IsNull(data) THEN [blocks |-> blocks, failed |-> TRUE]
             ELSE IF Val(data).type = "done" THEN ReadLines(Tail(lines), blocks)
             ELSE ReadLines(Tail(lines), Append(blocks, Val(data)))

\* reader.read() resolves with a chunk of n bytes, and the body of the
\* while loop; the panel shows a copy of blocks after every push
ReadChunk(n) ==
    LET decoded == Decode(wire.pending \o SubSeq(wire.bytes, 1, n))
        pieces == SplitFrames(wire.buffer \o decoded.text)
        read == ReadLines(SubSeq(pieces, 1, Len(pieces) - 1), wire.blocks)
    IN  /\ ~wire.done /\ ~wire.failed
        /\ n \in 1..Len(wire.bytes)
        /\ wire' = [wire EXCEPT
                      !.bytes = SubSeq(@, n + 1, Len(@)),
                      !.pending = decoded.pending,
                      !.buffer = Carry(pieces),
                      !.blocks = read.blocks,
                      !.shown = read.blocks,
                      !.failed = read.failed,
                      !.cut = @ \/ decoded.pending # <<>>
                                \/ Carry(pieces) # <<>>]
        /\ UNCHANGED <<loop, cache, page, execution>>

\* reader.read() resolves with done: break
ReadDone ==
    /\ ~wire.done /\ ~wire.failed
    /\ wire.bytes = <<>>
    /\ wire' = [wire EXCEPT !.done = TRUE]
    /\ UNCHANGED <<loop, cache, page, execution>>

InitParser ==
    /\ LoopIdle
    /\ cache = EmptyCache /\ page = InitialPage /\ execution = NoExecution
    /\ \E events \in EventSeqs, withDone \in BOOLEAN :
          wire = [NoWire EXCEPT !.events = events,
                                !.bytes = StreamBytes(events, withDone)]

NextParser ==
    \/ \E n \in 1..Len(wire.bytes) : ReadChunk(n)
    \/ ReadDone

SpecParser == InitParser /\ [][NextParser]_vars

\* ==================================================================== claims

IsTerminal(ev) == ev.by \in {"done", "catch"}

Contains(str, sub) ==
    \E i \in 1..(Len(str) - Len(sub) + 1) : SubSeq(str, i, i + Len(sub) - 1) = sub

\* the messages of r.currentMessages as the model provider reads them: an
\* assistant message shows what its content array holds now
SentContent(r, i) ==
    IF r.currentMessages[i].kind = "blocks"
    THEN r.arrays[r.currentMessages[i].ref] ELSE <<>>

\* the tool-result messages of the history that answer invocation id
ResultsFor(r, id) ==
    {i \in 1..Len(r.currentMessages) :
        /\ r.currentMessages[i].kind = "tool_result"
        /\ r.currentMessages[i].tool_use_id = id}

\* the assistant messages of the history that hold invocation id
HoldersOf(r, id) ==
    {i \in 1..Len(r.currentMessages) :
        \E j \in 1..Len(SentContent(r, i)) :
            /\ SentContent(r, i)[j].type = "tool_use"
            /\ SentContent(r, i)[j].id = id}

ToolUseIds(r) ==
    {SentContent(r, i)[j].id :
        <<i, j>> \in {x \in (1..Len(r.currentMessages)) \X (1..MaxBlocks) :
                        /\ x[2] <= Len(SentContent(r, x[1]))
                        /\ SentContent(r, x[1])[x[2]].type = "tool_use"}}

\* the events enqueued for the execution logged as o
EventsOf(r, o) == SubSeq(r.events, o.from, o.to)

\* C1: with no closeSandbox and no rejected await, every key has at most
\* one sandbox created for it and getOrCreateSandbox has returned at most
\* one handle for it, whatever the interleaving of the calls.
C1_SingleCreation ==
    \A k \in AllKeys :
        (/\ \A i \in 1..Len(sandboxes) : sandboxes[i].key = k => ~sandboxes[i].killed
         /\ \A p \in Procs : ~rq[p].threw)
        => /\ Cardinality({i \in 1..Len(sandboxes) : sandboxes[i].key = k}) <= 1
           /\ Cardinality({x \in returned : x[1] = k}) <= 1

\* C2: an opened stream holds at most one terminal event (done, or the
\* error event of the catch); it holds one exactly when the stream is
\* closed, that event is then the last one, and a request that has
\* finished has closed its stream.
C2_OneTerminalEvent ==
    \A p \in Procs :
        rq[p].streamOpen =>
            LET terminal == SelectSeq(rq[p].events, IsTerminal)
            IN  /\ Len(terminal) <= 1
                /\ rq[p].closed <=> Len(terminal) = 1
                /\ Len(terminal) = 1 => IsTerminal(Last(rq[p].events))
                /\ rq[p].pc = "finished" => rq[p].closed

\* a stream closed by the catch after an execution's own error event
C2_Witness ==
    \E p \in Procs :
        /\ rq[p].closed
        /\ Last(rq[p].events).by = "catch"
        /\ \E i \in 1..Len(rq[p].events) :
              rq[p].events[i].type = "error" /\ rq[p].events[i].by = "exec"

\* C3: at every model call after the first, every tool invocation of the
\* history sits in exactly one assistant message and is followed by exactly
\* one tool result naming its id.
C3_ToolResultPairing ==
    \A p \in Procs :
        (rq[p].pc = "await_model" /\ rq[p].modelCalls > 1) =>
            \A id \in ToolUseIds(rq[p]) :
                /\ Cardinality(HoldersOf(rq[p], id)) = 1
                /\ Cardinality(ResultsFor(rq[p], id)) = 1
                /\ \A h \in HoldersOf(rq[p], id), t \in ResultsFor(rq[p], id) : h < t

\* C4: a request makes at most MaxIterations model calls, and the calls
\* made equal the loop iterations entered.
C4_IterationCap ==
    \A p \in Procs :
        rq[p].streamOpen =>
            /\ rq[p].modelCalls <= MaxIterations
            /\ rq[p].modelCalls =
                 MaxIterations - (IF rq[p].maxIterations > 0
                                  THEN rq[p].maxIterations ELSE 0)

\* the cap is reached: ten calls made, the loop left by its test
C4_Witness ==
    \E p \in Procs :
        /\ rq[p].modelCalls = MaxIterations
        /\ rq[p].maxIterations < 0
        /\ rq[p].pc = "finished"

Bit(b) == IF b THEN 1 ELSE 0

\* C5 as claimed: the events of an execution number its non-empty fields
\* (text, error, images), so at most three.
C5_EventsCountFields ==
    \A p \in Procs :
        \A k \in 1..Len(rq[p].outcomes) :
            LET o == rq[p].outcomes[k]
            IN  Len(EventsOf(rq[p], o)) =
                    Bit(Truthy(o.result.text)) + Bit(ErrorTruthy(o.result))
                    + Bit(Len(o.result.images) > 0)

\* C5 amended: the events of an execution are one output event when the
\* text is non-empty, one error event when the error is non-empty, and one
\* image event per image.
C5_EventsCountImages ==
    \A p \in Procs :
        \A k \in 1..Len(rq[p].outcomes) :
            LET o == rq[p].outcomes[k]
                evs == EventsOf(rq[p], o)
            IN  /\ Len(evs) = Bit(Truthy(o.result.text)) + Bit(ErrorTruthy(o.result))
                              + Len(o.result.images)
                /\ Count(evs, LAMBDA e : e.type = "output") = Bit(Truthy(o.result.text))
                /\ Count(evs, LAMBDA e : e.type = "error") = Bit(ErrorTruthy(o.result))
                /\ Count(evs, LAMBDA e : e.type = "image") = Len(o.result.images)

\* an execution with text, an error and two images: four events
C5_Witness ==
    \E p \in Procs :
        \E k \in 1..Len(rq[p].outcomes) :
            LET o == rq[p].outcomes[k]
            IN  /\ Truthy(o.result.text) /\ ErrorTruthy(o.result)
                /\ Len(o.result.images) = 2
                /\ Len(EventsOf(rq[p], o)) = 4

\* C6: an execution whose outcome has a non-null error has exactly one
\* error event, carrying that error, among its events, and its tool result
\* holds the Error block with the error text.
C6_ErrorSurfaced ==
    \A p \in Procs :
        \A k \in 1..Len(rq[p].outcomes) :
            LET o == rq[p].outcomes[k]
            IN  ~IsNull(o.result.error) =>
                  /\ Count(EventsOf(rq[p], o),
                           LAMBDA e : e.type = "error"
                                      /\ e.content = Val(o.result.error)) = 1
                  /\ \A t \in ResultsFor(rq[p], o.id) :
                        Contains(rq[p].currentMessages[t].text,
                                 <<"Error:\n">> \o Val(o.result.error))

\* C7: a tool result is never empty, and it is the sentinel exactly when
\* the outcome has no text, a null error and no image.
C7_SentinelOnlyWhenAbsent ==
    \A p \in Procs :
        \A k \in 1..Len(rq[p].outcomes) :
            LET o == rq[p].outcomes[k]
            IN  \A t \in ResultsFor(rq[p], o.id) :
                  /\ rq[p].currentMessages[t].text # <<>>
                  /\ (rq[p].currentMessages[t].text = Sentinel)
                     <=> (/\ o.result.text = <<>>
                          /\ IsNull(o.result.error)
                          /\ o.result.images = <<>>)

\* the sections an outcome has, by appending each one that is present
PresentSections(result) ==
    (IF result.text # <<>> THEN << <<"Output:\n">> \o result.text >> ELSE <<>>)
    \o (IF ErrorTruthy(result)
        THEN << <<"Error:\n">> \o Val(result.error) >> ELSE <<>>)
    \o (IF result.images # <<>>
        THEN << <<"[", ToString(Len(result.images)),
                  " plot(s) generated and displayed]">> >>
        ELSE <<>>)

NoEmptySection(str) ==
    /\ str[1] # "\n\n" /\ str[Len(str)] # "\n\n"
    /\ \A i \in 1..(Len(str) - 1) : ~(str[i] = "\n\n" /\ str[i + 1] = "\n\n")
    /\ \A i \in 1..Len(str) :
          str[i] \in {"Output:\n", "Error:\n"} => (i < Len(str) /\ str[i + 1] # "\n\n")

\* C8: a tool result of an outcome with a non-empty field is its present
\* sections, Output then Error then the image notice, joined by one blank
\* line, with no empty section.
C8_SectionsInOrder ==
    \A p \in Procs :
        \A k \in 1..Len(rq[p].outcomes) :
            LET o == rq[p].outcomes[k]
                present == PresentSections(o.result)
            IN  \A t \in ResultsFor(rq[p], o.id) :
                  LET text == rq[p].currentMessages[t].text
                  IN  /\ NoEmptySection(text)
                      /\ present # <<>> =>
                           /\ Len(present) = 1 => text = present[1]
                           /\ Len(present) = 2 =>
                                text = present[1] \o <<"\n\n">> \o present[2]
                           /\ Len(present) = 3 =>
                                text = present[1] \o <<"\n\n">> \o present[2]
                                       \o <<"\n\n">> \o present[3]

\* a tool result made of the Output block and the image notice only
C8_Witness ==
    \E p \in Procs :
        \E k \in 1..Len(rq[p].outcomes) :
            LET o == rq[p].outcomes[k]
            IN  /\ Truthy(o.result.text) /\ IsNull(o.result.error)
                /\ Len(o.result.images) = 2
                /\ ResultsFor(rq[p], o.id) # {}

\* C9: a run that throws never reaches the loop as an exception: the loop
\* gets an outcome with text "", no image and a non-null, non-empty error.
C9_ThrowBecomesOutcome ==
    \A p \in Procs :
        /\ \A i \in 1..Len(rq[p].events) :
              ~(rq[p].events[i].by = "catch"
                /\ rq[p].events[i].content = <<"executeCode rejected">>)
        /\ \A k \in 1..Len(rq[p].outcomes) :
              LET o == rq[p].outcomes[k]
              IN  o.run.throws =>
                    /\ ~o.result.threw
                    /\ o.result.text = <<>>
                    /\ o.result.images = <<>>
                    /\ ~IsNull(o.result.error)
                    /\ Truthy(Val(o.result.error))

\* a run that threw an Error without a message, handled by the loop
C9_Witness ==
    \E p \in Procs :
        \E k \in 1..Len(rq[p].outcomes) :
            LET o == rq[p].outcomes[k]
            IN  /\ o.run.throws /\ IsNull(o.run.message)
                /\ o.result.error = Some(<<"Execution failed">>)
                /\ rq[p].pc = "await_model"

\* C10: an execution whose outcome carries an error (and nothing else) puts
\* the tool result "Error:\n<message>" into the history and leaves the
\* stream open; the loop goes on to the next model call unless the cap is
\* reached.
C10_ErrorContinuesLoop ==
    \A p \in Procs :
        \A k \in 1..Len(rq[p].outcomes) :
            LET o == rq[p].outcomes[k]
            IN  (/\ ~IsNull(o.result.error)
                 /\ o.result.text = <<>> /\ o.result.images = <<>>) =>
                  /\ \A t \in ResultsFor(rq[p], o.id) :
                        rq[p].currentMessages[t].text
                          = <<"Error:\n">> \o Val(o.result.error)
                  /\ ResultsFor(rq[p], o.id) # {}
                  /\ (rq[p].closed /\ Last(rq[p].events).by = "done"
                      /\ o.call = Len(rq[p].arrays))
                       => rq[p].maxIterations < 0

\* the events the catch of start() has enqueued
CatchEvents(r) == SelectSeq(r.events, LAMBDA ev : ev.by = "catch")

\* C11: when a model call throws, the loop is aborted. The step of the
\* rejection issues no model call and no execution and appends exactly one
\* event, an error event carrying the message thrown, to the events
\* already sent; from then on the request is finished and its stream
\* closed, it holds no done event and a single event of the catch, and
\* nothing of the request changes any more.
C11_ModelFailureAborts ==
    /\ [](\A p \in Procs :
            rq[p].modelError # Null =>
                /\ rq[p].pc = "finished" /\ rq[p].closed
                /\ Last(rq[p].events) = Event("error", Val(rq[p].modelError), "catch")
                /\ Len(CatchEvents(rq[p])) = 1
                /\ \A i \in 1..Len(rq[p].events) : rq[p].events[i].type # "done")
    /\ [][\A p \in Procs :
            /\ (rq[p].modelError = Null /\ rq'[p].modelError # Null) =>
                   /\ rq[p].pc = "await_model"
                   /\ rq'[p].events =
                          Append(rq[p].events,
                                 Event("error", Val(rq'[p].modelError), "catch"))
                   /\ rq'[p].modelCalls = rq[p].modelCalls
                   /\ rq'[p].outcomes = rq[p].outcomes
            /\ rq[p].modelError # Null => rq'[p] = rq[p]]_vars

\* the second model call of a request is rejected after the events of the
\* first response and of its execution have been sent
C11_Witness ==
    \E p \in Procs :
        /\ rq[p].modelError # Null
        /\ rq[p].modelCalls = 2
        /\ Len(rq[p].outcomes) = 1
        /\ Len(rq[p].events) >= 3

Calls(p, fn) == rq'[p].calls = rq[p].calls + 1 /\ rq'[p].fn = fn

\* C13: a getOrCreateSandbox call that starts when the pool maps its key
\* returns the mapped handle in the same step, without an await: it creates
\* no sandbox, runs no install and no secret-injection step (no sandbox
\* changes) and leaves the pool map unchanged.
C13_HitReturnsMapped ==
    [][\A p \in Procs :
          (Calls(p, "getOrCreateSandbox") /\ activeSandboxes[rq'[p].key] # 0) =>
              /\ rq'[p].pc = "idle" /\ rq'[p].threw = rq[p].threw
              /\ rq'[p].sandbox = activeSandboxes[rq'[p].key]
              /\ sandboxes' = sandboxes
              /\ activeSandboxes' = activeSandboxes]_vars

\* two callers hold the one sandbox of a spinel key, set up with install
\* and secret: the second call found the key mapped
C13_Witness ==
    /\ Len(sandboxes) = 1
    /\ sandboxes[1].mode = "spinel" /\ sandboxes[1].installed /\ sandboxes[1].secret
    /\ \A p \in 1..2 :
          /\ rq[p].fn = "getOrCreateSandbox" /\ rq[p].pc = "idle"
          /\ rq[p].calls = 1 /\ rq[p].sandbox = 1

\* the step in which the pool call of process p returns
Returns(p) == rq'[p].returns = rq[p].returns + 1

\* C14: when closeSandbox completes for a key it found mapped, the sandbox
\* it found has been killed, the pool has no entry for the key and the
\* entries of all other keys are as before; a getOrCreateSandbox call that
\* starts while the key has no entry creates a sandbox, and the sandbox
\* created is a new one.
C14_CloseRemovesEntry ==
    [][\A p \in Procs :
          /\ (rq[p].pc = "killing" /\ Returns(p)) =>
                 /\ rq[p].fn = "closeSandbox"
                 /\ sandboxes'[rq[p].sandbox].killed
                 /\ activeSandboxes'[rq[p].key] = 0
                 /\ \A k \in AllKeys \ {rq[p].key} :
                        activeSandboxes'[k] = activeSandboxes[k]
          /\ (Calls(p, "getOrCreateSandbox") /\ activeSandboxes[rq'[p].key] = 0) =>
                 rq'[p].pc = "creating"
          /\ (rq[p].pc = "creating" /\ rq'[p].pc # "creating" /\ ~rq'[p].threw) =>
                 /\ rq'[p].sandbox \notin 1..Len(sandboxes)
                 /\ rq'[p].sandbox \in 1..Len(sandboxes')
                 /\ ~sandboxes'[rq'[p].sandbox].killed]_vars

\* closeSandbox has returned after killing sandbox 1, and the next
\* getOrCreateSandbox of the key has created sandbox 2 and mapped it
C14_Witness ==
    /\ Len(sandboxes) = 2
    /\ sandboxes[1].killed /\ ~sandboxes[2].killed
    /\ sandboxes[2].key = sandboxes[1].key
    /\ activeSandboxes[sandboxes[1].key] = 2
    /\ \E p \in Procs :
          /\ rq[p].fn = "closeSandbox" /\ rq[p].pc = "idle"
          /\ rq[p].sandbox = 1 /\ rq[p].returns = rq[p].calls
    /\ \E p \in Procs :
          /\ rq[p].fn = "getOrCreateSandbox" /\ rq[p].pc = "idle"
          /\ rq[p].sandbox = 2 /\ rq[p].calls = 1

\* the blocks of the model responses to the request of process p that the
\* loop has processed so far
BlocksOf(p) ==
    {rq[p].arrays[x[1]][x[2]] :
        x \in {y \in (1..Len(rq[p].arrays)) \X (1..MaxBlocks) :
                 y[2] <= Len(rq[p].arrays[y[1]])}}

\* event i of the stream of p was made from a block of a response to p,
\* from the result of an execution of p, or by p's own end of the loop
OwnEvent(p, i) ==
    LET ev == rq[p].events[i]
    IN  CASE ev.by = "block" ->
                \E b \in BlocksOf(p) :
                    \/ b.type = "text" /\ ev.type = "text" /\ ev.content = b.text
                    \/ b.type = "tool_use" /\ ev.type = "code" /\ ev.content = b.code
          [] ev.by = "exec" ->
                \E k \in 1..Len(rq[p].outcomes) :
                    LET o == rq[p].outcomes[k]
                    IN  /\ i \in o.from..o.to
                        /\ \E b \in BlocksOf(p) : b.type = "tool_use" /\ b.id = o.id
          [] ev.by = "catch" -> ev.content = Val(rq[p].modelError)
          [] OTHER -> ev.type = "done"

\* C15: for two concurrent requests of one session with the modes vanilla
\* and spinel, the keys differ and, once both have acquired their sandbox,
\* the pool maps the two keys to two different handles, each of its
\* request's mode; every execution of a request has run on the handle of
\* its own key; every event on a request's stream comes from that
\* request's own responses and executions, and no block of a response to
\* one request shows among the other's.
C15_ModesIsolated ==
    \A p \in Procs : \A q \in Procs \ {p} :
        (rq[p].op = "post" /\ rq[q].op = "post" /\ rq[p].mode # rq[q].mode) =>
            /\ (rq[p].returns > 0 /\ rq[q].returns > 0) =>
                   /\ rq[p].key # rq[q].key
                   /\ activeSandboxes[rq[p].key] # 0
                   /\ activeSandboxes[rq[p].key] # activeSandboxes[rq[q].key]
                   /\ rq[p].sandbox = activeSandboxes[rq[p].key]
                   /\ sandboxes[rq[p].sandbox].mode = rq[p].mode
            /\ \A k \in 1..Len(rq[p].outcomes) :
                   /\ rq[p].outcomes[k].sandbox = activeSandboxes[rq[p].key]
                   /\ rq[p].outcomes[k].sandbox # rq[q].sandbox
            /\ \A i \in 1..Len(rq[p].events) : OwnEvent(p, i)
            /\ BlocksOf(p) \cap BlocksOf(q) = {}

\* both requests have run code on their sandboxes and one of them is
\* awaiting an execution while the other awaits its model
C15_Witness ==
    /\ rq[1].mode = "vanilla" /\ rq[2].mode = "spinel"
    /\ Len(rq[1].outcomes) >= 1 /\ Len(rq[2].outcomes) >= 1
    /\ rq[1].pc = "await_exec" /\ rq[2].pc = "await_model"
    /\ sandboxes[rq[2].sandbox].installed

\* the ids of the tool invocations the loop has reached, in the order of
\* the responses and of the blocks within a response
ToolIdsInOrder(r) ==
    LET tools == SelectSeq(Flatten(r.arrays), LAMBDA b : b.type = "tool_use")
    IN  [i \in 1..Len(tools) |-> tools[i].id]

\* the executions issued: executeCode is called right after the code event
\* of its block is enqueued
Issued(r) == Count(r.events, LAMBDA ev : ev.type = "code")

\* C16: within one request at most one execution is in flight, and one is
\* in flight exactly while the loop awaits it, so never while a model call
\* is awaited or a block is processed; the executions have returned in the
\* order of the tool-invocation blocks, each issued only after all earlier
\* ones had returned.
C16_ExecutionsSequential ==
    \A p \in Procs :
        rq[p].op = "post" =>
            LET inFlight == Issued(rq[p]) - Len(rq[p].outcomes)
                ids == ToolIdsInOrder(rq[p])
            IN  /\ inFlight \in {0, 1}
                /\ inFlight = 1 <=> rq[p].pc = "await_exec"
                /\ Len(ids) = Issued(rq[p])
                /\ \A k \in 1..Len(rq[p].outcomes) : rq[p].outcomes[k].id = ids[k]

\* the second tool invocation of one response is being executed after the
\* first has returned
C16_Witness ==
    \E p \in Procs :
        /\ rq[p].pc = "await_exec"
        /\ rq[p].idx = 2
        /\ Len(rq[p].outcomes) = 1
        /\ rq[p].outcomes[1].call = rq[p].modelCalls

\* the place of an event type within the events of one execution
Rank(type) == CASE type = "output" -> 1 [] type = "error" -> 2 [] OTHER -> 3

\* what the stream shows of an event
Shown(ev) == [type |-> ev.type, content |-> ev.content]

\* the execution logged for invocation id, if it has returned
OutcomesOf(r, id) == SelectSeq(r.outcomes, LAMBDA o : o.id = id)

\* the events a processed block stands for on the stream: its text event,
\* or its code event followed by the events of its execution
BlockEvents(r, b) ==
    IF b.type = "text" THEN <<[type |-> "text", content |-> b.text]>>
    ELSE <<[type |-> "code", content |-> b.code]>>
         \o (IF \A k \in 1..Len(r.outcomes) : r.outcomes[k].id # b.id THEN <<>>
             ELSE LET o == OutcomesOf(r, b.id)[1]
                  IN  [i \in 1..(o.to - o.from + 1) |->
                          Shown(r.events[o.from + i - 1])])

\* the events of the blocks processed so far, in model-response order
ExpectedEvents(r) ==
    LET blocks == Flatten(r.arrays)
    IN  Flatten([i \in 1..Len(blocks) |-> BlockEvents(r, blocks[i])])

\* the events of execution o: at most one output event, then at most one
\* error event, then one image event per image in the order of the images
ResultInOrder(r, o) ==
    LET evs == EventsOf(r, o)
        images == SelectSeq(evs, LAMBDA ev : ev.type = "image")
    IN  /\ \A i \in 1..Len(evs) : evs[i].type \in {"output", "error", "image"}
        /\ \A i \in 1..Len(evs) : \A j \in 1..Len(evs) :
               i < j => /\ Rank(evs[i].type) <= Rank(evs[j].type)
                        /\ evs[i].type = evs[j].type => evs[i].type = "image"
        /\ \A i \in 1..Len(evs) :
               /\ evs[i].type = "output" => evs[i].content = o.result.text
               /\ evs[i].type = "error" => evs[i].content = ErrorText(o.result)
        /\ [i \in 1..Len(images) |-> images[i].content] = o.result.images

\* the types of the events of r
Types(r) == [i \in 1..Len(r.events) |-> r.events[i].type]

\* C17: the events before the terminal one are those of the processed
\* blocks in model-response order: one text event per text block; per tool
\* invocation its code event followed by the events of its execution,
\* which are its output event (if any), then its error event (if any),
\* then its image events in the order of the images. A response holding
\* the tool call print(2+2) whose run prints 4, followed by a response
\* holding the final text, gives exactly code, output, text, done.
C17_EventsInResponseOrder ==
    \A p \in Procs :
        LET r == rq[p]
            sent == SelectSeq(r.events, LAMBDA ev : ~IsTerminal(ev))
        IN  /\ [i \in 1..Len(sent) |-> Shown(sent[i])] = ExpectedEvents(r)
            /\ \A k \in 1..Len(r.outcomes) : ResultInOrder(r, r.outcomes[k])
            /\ (/\ r.pc = "finished" /\ r.modelError = Null /\ r.streamOpen
                /\ Len(r.arrays) = 2
                /\ Len(r.arrays[1]) = 1 /\ r.arrays[1][1].type = "tool_use"
                /\ Len(r.arrays[2]) = 1 /\ r.arrays[2][1].type = "text"
                /\ r.outcomes[1].run = PlainRun)
               => Types(r) = <<"code", "output", "text", "done">>

\* the scenario has run to its end
C17_Witness ==
    \E p \in Procs :
        /\ rq[p].pc = "finished"
        /\ Len(rq[p].arrays) = 2
        /\ rq[p].outcomes[1].run = PlainRun
        /\ Types(rq[p]) = <<"code", "output", "text", "done">>

\* message i of the history of r with the content it shows now
Message(r, i) == [msg |-> r.currentMessages[i], content |-> SentContent(r, i)]

\* C18: the history is append-only: no step of a request shortens
\* currentMessages or changes the content of a message appended before,
\* even while later blocks of the same model response are processed, and
\* the messages array the caller supplied is never changed.
C18_HistoryAppendOnly ==
    [][\A p \in Procs :
          (rq[p].op = "post" /\ rq[p].streamOpen) =>
              /\ Len(rq'[p].currentMessages) >= Len(rq[p].currentMessages)
              /\ \A i \in 1..Len(rq[p].currentMessages) :
                     Message(rq'[p], i) = Message(rq[p], i)
              /\ rq'[p].messages = rq[p].messages]_vars

\* the paths of the first n files of the request, in list order
PathsOf(r, n) == [i \in 1..n |-> <<"/home/user/">> \o r.files[i]]

\* C19: the files of a request are written into the sandbox the request
\* has acquired, each at /home/user/{name}, in list order: nothing is
\* written before the sandbox is acquired, while the uploads run the
\* sandbox holds the files before the current one, and from the first
\* model call on it holds them all.
C19_FilesBeforeFirstModelCall ==
    \A p \in Procs :
        rq[p].op = "post" =>
            /\ rq[p].pc = "uploading" =>
                   /\ rq[p].sandbox # 0 /\ rq[p].modelCalls = 0
                   /\ sandboxes[rq[p].sandbox].files = PathsOf(rq[p], rq[p].fileIdx - 1)
            /\ rq[p].modelCalls >= 1 =>
                   /\ rq[p].sandbox = activeSandboxes[rq[p].key]
                   /\ sandboxes[rq[p].sandbox].files = PathsOf(rq[p], Len(rq[p].files))
            /\ \A i \in 1..Len(sandboxes) :
                   (i # rq[p].sandbox /\ sandboxes[i].key = rq[p].key) =>
                       sandboxes[i].files = <<>>

\* the first model call is awaited with both files of the request written
C19_Witness ==
    \E p \in Procs :
        /\ rq[p].pc = "await_model" /\ rq[p].modelCalls = 1
        /\ Len(rq[p].files) = 2
        /\ sandboxes[rq[p].sandbox].files =
              << <<"/home/user/", "data.csv">>, <<"/home/user/", "notes.txt">> >>

\* the stream of the loop without persistence for the responses, the
\* executions and the model error of r: the events of the blocks, then done
\* or the error event of the catch once the loop has ended
EventsWithoutPersistence(r) ==
    ExpectedEvents(r)
    \o (IF r.pc # "finished" \/ ~r.streamOpen THEN <<>>
        ELSE IF r.modelError = Null THEN <<[type |-> "done", content |-> <<>>]>>
        ELSE <<[type |-> "error", content |-> Val(r.modelError)]>>)

\* the calls of persistence helper fn made by r
CallsOf(r, fn) == Count(r.db, LAMBDA c : c = fn)

\* C20: whichever of ensureSession, saveUserMessage, saveUploadedFile and
\* saveAssistantMessage reject, the events of a request are those of the
\* loop without persistence; no persistence call is awaited (the request
\* only ever waits for the pool, an upload, the prompt, the model or an
\* execution), none is made more often than the route asks for it, and
\* none shows as an event.
C20_PersistenceTransparent ==
    \A p \in Procs :
        rq[p].op = "post" =>
            /\ [i \in 1..Len(rq[p].events) |-> Shown(rq[p].events[i])]
                  = EventsWithoutPersistence(rq[p])
            /\ rq[p].pc \in {"start", "creating", "installing", "injecting",
                              "uploading", "prompt", "await_model", "blocks",
                              "await_exec", "finished"}
            /\ rq[p].pc # "start" =>
                   /\ CallsOf(rq[p], "ensureSession") = 1
                   /\ CallsOf(rq[p], "saveUploadedFile") = Len(rq[p].files)
            /\ CallsOf(rq[p], "saveUserMessage") = Bit(rq[p].streamOpen)
            /\ CallsOf(rq[p], "saveAssistantMessage") <= Bit(rq[p].closed)
            /\ \A c \in 1..Len(rq[p].db) : rq[p].db[c] \in PersistenceCalls

\* a request whose four persistence helpers all reject has streamed code,
\* output, text and done
C20_Witness ==
    \E p \in Procs :
        /\ rq[p].rejected = PersistenceCalls
        /\ rq[p].pc = "finished"
        /\ Len(rq[p].files) = 2
        /\ CallsOf(rq[p], "saveAssistantMessage") = 1
        /\ Types(rq[p]) = <<"code", "output", "text", "done">>

\* the calls of getSkillContent and getPackageList that have returned
ReturnedCalls == {i \in 1..Len(cache.calls) : cache.calls[i].pc = "returned"}

\* the fetch of the call failed, timed out, answered with a non-OK status,
\* lost its body, or served a manifest without a REQUIREMENTS list
FetchFailed(c) ==
    \/ c.net \in {"rejected", "not ok"}
    \/ c.read = "rejected"
    \/ c.doc = "packages" /\ ~IsNull(c.body) /\ IsNull(Val(c.body).requirements)

\* C21: getSkillContent and getPackageList never throw: every call that
\* has ended has returned a value, and a call whose fetch failed, timed
\* out, answered with a non-OK status or served a manifest that cannot be
\* parsed has returned the embedded fallback constant, so that a caller
\* awaiting the call always receives a value and never a rejection.
C21_FallbackOnFailure ==
    /\ \A i \in ReturnedCalls :
          /\ ~IsNull(cache.calls[i].result)
          /\ FetchFailed(cache.calls[i]) =>
                Val(cache.calls[i].result) = Fallback(cache.calls[i].doc)
    /\ \A i \in 1..Len(cache.calls) :
          cache.calls[i].pc \in {"fetching", "reading", "returned"}

\* a non-OK answer for SKILL.md and a manifest without a REQUIREMENTS list
\* have both been answered with the fallback constants
C21_Witness ==
    /\ Len(cache.calls) = 2
    /\ cache.calls[1] = [doc |-> "skill", pc |-> "returned",
                          result |-> Some(FALLBACK_SKILL_CONTENT),
                          fetched |-> TRUE, net |-> "not ok",
                          read |-> "none", body |-> Null]
    /\ cache.calls[2] = [doc |-> "packages", pc |-> "returned",
                          result |-> Some(FALLBACK_PACKAGES),
                          fetched |-> TRUE, net |-> "ok", read |-> "done",
                          body |-> Some([requirements |-> Null])]
    /\ IsNull(cache.skill) /\ IsNull(cache.packages)

\* the other cache
OtherDoc(doc) == IF doc = "skill" THEN "packages" ELSE "skill"

\* the age of a cache entry
Age(entry) == cache.now - Val(entry).fetchedAt

\* the step begins a call of getSkillContent or getPackageList
CallBegins == Len(cache'.calls) = Len(cache.calls) + 1

\* C22: a call that finds a cache entry younger than one hour returns the
\* cached value without a fetch; a call that finds an entry at least one
\* hour old (or none) attempts a new fetch; and a step of a call (a hit,
\* a miss, a failure) never changes the other function's cache.
C22_TtlAndIndependence ==
    [][/\ CallBegins =>
            LET c == cache'.calls[Len(cache'.calls)]
                entry == cache[c.doc]
            IN  /\ (~IsNull(entry) /\ Age(entry) < 60 * 60 * 1000) =>
                      /\ c.pc = "returned"
                      /\ ~c.fetched /\ c.net = "none"
                      /\ c.result = Some(Val(entry).value)
                /\ (IsNull(entry) \/ Age(entry) >= 60 * 60 * 1000) =>
                      c.pc = "fetching" /\ c.fetched
                /\ cache'.skill = cache.skill
                /\ cache'.packages = cache.packages
       /\ \A i \in 1..Len(cache.calls) :
            cache'.calls[i] # cache.calls[i] =>
                cache'[OtherDoc(cache.calls[i].doc)]
                    = cache[OtherDoc(cache.calls[i].doc)]
      ]_vars

\* an entry written at 0 is exactly one hour old, a second call of
\* getSkillContent is fetching again, and the packages cache is untouched
C22_Witness ==
    /\ Len(cache.calls) = 2
    /\ cache.calls[1].doc = "skill" /\ cache.calls[1].read = "done"
    /\ ~IsNull(cache.skill)
    /\ Age(cache.skill) = CACHE_TTL_MS
    /\ cache.calls[2].doc = "skill" /\ cache.calls[2].pc = "fetching"
    /\ IsNull(cache.packages)

\* the model response being processed holds a tool invocation
HasToolInvocation(r) ==
    \E i \in 1..Len(r.response) : r.response[i].type = "tool_use"

\* the step ends the processing of a model response
ResponseEnds(p) ==
    /\ rq[p].pc = "blocks" /\ rq[p].idx > Len(rq[p].response)
    /\ rq'[p] # rq[p]

\* the step issues a model call
ModelCallIssued(p) ==
    rq'[p].modelCalls = rq[p].modelCalls + 1 /\ rq'[p].pc = "await_model"

\* the step ends the stream with done
EndsWithDone(p) ==
    /\ rq'[p].events = Append(rq[p].events, Event("done", <<>>, "done"))
    /\ rq'[p].closed /\ rq'[p].pc = "finished"
    /\ rq'[p].modelCalls = rq[p].modelCalls

\* C23: when the 10th model response too contains a tool invocation, the
\* loop issues no further model call and ends the stream with done, the
\* event of a clean stop; the stream holds no event of the catch handler
\* and no event for the cap.
C23_CapEndsWithDone ==
    [][\A p \in Procs :
         (/\ ResponseEnds(p)
          /\ HasToolInvocation(rq[p])
          /\ rq[p].modelCalls = 10) =>
            /\ EndsWithDone(p)
            /\ \A i \in 1..Len(rq'[p].events) : rq'[p].events[i].by # "catch"
            /\ Len(SelectSeq(rq'[p].events, LAMBDA e : e.type = "done")) = 1
      ]_vars

\* ten responses with a tool invocation each, ten executions without an
\* error, and the stream closed after done
C23_Witness ==
    \E p \in Procs :
        /\ rq[p].pc = "finished" /\ rq[p].closed
        /\ rq[p].modelCalls = 10
        /\ HasToolInvocation(rq[p])
        /\ Len(rq[p].outcomes) = 10
        /\ Last(rq[p].events).type = "done"
        /\ \A i \in 1..Len(rq[p].events) : rq[p].events[i].type # "error"

\* C24: a model call is issued after a model response exactly if that
\* response held a tool invocation and fewer than 10 model calls have been
\* made; model calls after the first are issued nowhere else; and a
\* response without a tool invocation ends the loop, followed by done.
C24_FurtherCallIffToolUse ==
    [][\A p \in Procs :
         /\ ResponseEnds(p) =>
              /\ ModelCallIssued(p) <=>
                    (HasToolInvocation(rq[p]) /\ rq[p].modelCalls < 10)
              /\ ~HasToolInvocation(rq[p]) => EndsWithDone(p)
         /\ (rq[p].modelCalls >= 1 /\ rq'[p].modelCalls # rq[p].modelCalls) =>
              ResponseEnds(p) /\ ModelCallIssued(p)
      ]_vars

\* a second model call followed a response with a tool invocation, and
\* its response, only text, ended the loop with done
C24_Witness ==
    \E p \in Procs :
        /\ rq[p].pc = "finished"
        /\ rq[p].modelCalls = 2
        /\ Len(rq[p].outcomes) >= 1
        /\ rq[p].response # <<>> /\ ~HasToolInvocation(rq[p])
        /\ Last(rq[p].events).type = "done"

\* the requests of the page that are in flight
InFlight == {j \in 1..Len(page.requests) : page.requests[j].pc = "in flight"}

\* C25: the arena page never has two requests in flight for the same
\* (session, mode) pair.
C25_OneRequestInFlightPerMode ==
    \A j, k \in InFlight :
        (/\ page.requests[j].sessionId = page.requests[k].sessionId
         /\ page.requests[j].mode = page.requests[k].mode) => j = k

\* the requests dispatched for the i-th submitted query
RequestsOf(i) == {j \in 1..Len(page.requests) : page.requests[j].submit = i}

\* C30: for every submitted query whose handleSubmit has run to its end,
\* the page has issued exactly two requests, one vanilla and one spinel,
\* with the same messages, sessionId and files.
C30_TwoRequestsPerQuery ==
    \A i \in 1..Len(page.submits) :
        page.submits[i].pc # "reading" =>
            /\ Cardinality(RequestsOf(i)) = 2
            /\ {page.requests[j].mode : j \in RequestsOf(i)} = Modes
            /\ \A j, k \in RequestsOf(i) :
                  /\ page.requests[j].messages = page.requests[k].messages
                  /\ page.requests[j].sessionId = page.requests[k].sessionId
                  /\ page.requests[j].files = page.requests[k].files

\* the handles getOrCreateSandbox has returned or registered
HandedOut ==
    {pair[2] : pair \in returned}
        \cup ({activeSandboxes[k] : k \in AllKeys} \ {0})

\* C26 as stated: with no template configured for its mode, a sandbox that
\* getOrCreateSandbox has returned had the install step run on it, for
\* every mode.
C26_InstallForEveryMode ==
    \A h \in HandedOut :
        ~cfg.template[sandboxes[h].mode] => sandboxes[h].installed

\* C26, amended: the install step has run on a returned or registered
\* sandbox exactly if its mode is spinel and no spinel template is
\* configured; a vanilla sandbox is returned without an install step.
C26_InstallForSpinelOnly ==
    \A h \in HandedOut :
        sandboxes[h].installed <=>
            (sandboxes[h].mode = "spinel" /\ ~cfg.template["spinel"])

\* no template is configured; a spinel sandbox has been returned with its
\* packages installed and a vanilla sandbox without
C26_Witness ==
    /\ ~cfg.template["spinel"] /\ ~cfg.template["vanilla"]
    /\ \E h \in HandedOut :
          sandboxes[h].mode = "spinel" /\ sandboxes[h].installed
    /\ \E h \in HandedOut :
          sandboxes[h].mode = "vanilla" /\ ~sandboxes[h].installed

\* a text without its line breaks and blanks
Visible(text) == SelectSeq(text, LAMBDA t : t \notin Whitespace)

\* the texts of the chunks, one after the other as emitted
EmittedText(emitted) == Flatten([i \in 1..Len(emitted) |-> emitted[i].text])

\* C27: the text of an execution outcome holds the chunks written to
\* standard output and standard error in the order the code emitted them
\* (line breaks and blanks apart).
C27_TextInEmissionOrder ==
    ~IsNull(execution.result) =>
        Visible(Val(execution.result).text)
            = Visible(EmittedText(execution.emitted))

\* the first sequence begins the second
IsPrefix(short, long) ==
    Len(short) <= Len(long) /\ SubSeq(long, 1, Len(short)) = short

\* C28: however the bytes of the response are cut into chunks, the reader
\* of streamChat never fails on a frame, the blocks it has pushed (and the
\* panel shows) are at every time the first of the events the server
\* enqueued, done apart, each once and in order, and when the stream has
\* ended they are all of them.
C28_ParserReconstructsEvents ==
    /\ ~wire.failed
    /\ IsPrefix(wire.blocks, wire.events)
    /\ wire.shown = wire.blocks
    /\ wire.done => wire.blocks = wire.events /\ wire.buffer = <<>>

\* a code with a blank line and an error with a two-byte character have
\* been read to the end from chunks that ended inside frames
C28_Witness ==
    /\ wire.done /\ wire.cut
    /\ Len(wire.events) = 2
    /\ wire.events[1] = [type |-> "code", content |-> <<"\n", "\n">>]
    /\ wire.events[2] = [type |-> "error", content |-> <<"e-acute">>]
    /\ wire.shown = wire.events

\* the request of p has reached a tool invocation
ReachedToolUse(p) ==
    \E i \in 1..Len(rq[p].events) : rq[p].events[i].type = "code"

\* C29: a sandbox exists for a (session, mode) pair only if a request for
\* that pair has reached a tool invocation.
C29_CreatedOnFirstToolUse ==
    \A h \in 1..Len(sandboxes) :
        \E p \in Procs :
            rq[p].key = sandboxes[h].key /\ ReachedToolUse(p)

\* the handles in the pool map
Registered == {activeSandboxes[k] : k \in AllKeys} \ {0}

\* a call of getOrCreateSandbox is still awaiting creation or a setup step
\* of the sandbox h
InSetup(h) ==
    \E p \in Procs :
        /\ rq[p].pc \in {"creating", "installing", "injecting"}
        /\ rq[p].sandbox = h

\* the step is a rejection inside getOrCreateSandbox
SetupThrows(p) ==
    /\ rq[p].pc \in {"creating", "installing", "injecting"}
    /\ rq'[p].pc \notin {"creating", "installing", "injecting"}
    /\ rq'[p].returns = rq[p].returns

\* C31: every handle in the pool map is of a created sandbox on which the
\* setup steps that apply to it (the install for spinel without template,
\* the injection of MP_API_KEY for spinel when it is set) have returned,
\* and no call is still setting it up; a creation or setup step that
\* throws leaves the pool map as it was.
C31_RegisteredAfterSetup ==
    /\ [](\A h \in Registered :
            /\ h \in 1..Len(sandboxes)
            /\ ~InSetup(h)
            /\ (sandboxes[h].mode = "spinel" /\ ~cfg.template["spinel"])
                  => sandboxes[h].installed
            /\ (sandboxes[h].mode = "spinel" /\ cfg.mpKey)
                  => sandboxes[h].secret)
    /\ [][\A p \in Procs :
            SetupThrows(p) => activeSandboxes' = activeSandboxes]_vars

\* a spinel sandbox is in the map with its packages installed and the key
\* injected, and a later call for vanilla has thrown after creating a
\* second sandbox, which is not in the map
C31_Witness ==
    /\ ~cfg.template["spinel"] /\ cfg.mpKey
    /\ Len(sandboxes) = 2
    /\ Registered = {1}
    /\ sandboxes[1].mode = "spinel"
    /\ sandboxes[1].installed /\ sandboxes[1].secret
    /\ \E p \in Procs :
          rq[p].threw /\ rq[p].fn = "getOrCreateSandbox" /\ rq[p].sandbox = 2

\* where POST awaits before the stream is created
PreStreamPcs == {"creating", "installing", "injecting", "uploading", "prompt"}

\* the step is a rejection of an await of POST before the stream exists
PreStreamThrows(p) ==
    /\ rq[p].op = "post"
    /\ rq[p].pc \in PreStreamPcs
    /\ rq'[p].pc = "finished"

\* C32: a rejection while POST acquires the sandbox, writes an uploaded
\* file or builds the system prompt ends the request with status 500, and
\* a request answered with 500 has no stream, has issued no model call,
\* has executed no code and has emitted no event.
C32_PreStreamFailureIs500 ==
    /\ [][\A p \in Procs : PreStreamThrows(p) => rq'[p].status = 500]_vars
    /\ [](\A p \in Procs :
            rq[p].status = 500 =>
                /\ rq[p].pc = "finished"
                /\ ~rq[p].streamOpen /\ ~rq[p].closed
                /\ rq[p].modelCalls = 0
                /\ rq[p].outcomes = <<>>
                /\ rq[p].events = <<>>)

\* the first file was written to the sandbox, the write of the second was
\* rejected, and the request was answered with 500
C32_Witness ==
    \E p \in Procs :
        /\ rq[p].status = 500
        /\ rq[p].fileIdx = 2
        /\ Len(sandboxes[rq[p].sandbox].files) = 1
        /\ rq[p].events = <<>> /\ rq[p].modelCalls = 0

\* the events of the transcript: those enqueued for blocks and executions
TranscriptEvents(r) == SelectSeq(r.events, LAMBDA e : e.by \in {"block", "exec"})

\* the entry expected in the block list for an event
Placeholder(ev) ==
    [type |-> ev.type,
     content |-> IF ev.type = "image" THEN <<"[base64]">> ELSE ev.content]

\* the calls of saveAssistantMessage made by the request
AssistantSaves(r) == Len(SelectSeq(r.db, LAMBDA c : c = "saveAssistantMessage"))

\* the request has emitted done / the error event of the loop's catch
EmittedBy(r, by) == \E i \in 1..Len(r.events) : r.events[i].by = by

\* C33: the block list kept for persistence holds one entry per event of
\* the transcript emitted so far, of the same kind and content and in the
\* same order, the payload of an image replaced by the placeholder; the
\* terminal events come after all of them; saveAssistantMessage has been
\* called once if done was emitted after at least one event, and not at
\* all otherwise, so never when the loop has aborted with an error.
C33_BlockListMirrorsEvents ==
    [](\A p \in Procs :
          LET r == rq[p]
              shown == TranscriptEvents(r)
          IN  r.streamOpen =>
                /\ Len(r.allStreamedBlocks) = Len(shown)
                /\ \A i \in 1..Len(shown) :
                      /\ r.allStreamedBlocks[i] = Placeholder(shown[i])
                      /\ r.events[i] = shown[i]
                /\ AssistantSaves(r) =
                      IF EmittedBy(r, "done") /\ Len(shown) > 0 THEN 1 ELSE 0
                /\ EmittedBy(r, "catch") => AssistantSaves(r) = 0)

\* a request has ended with done after an execution that produced an
\* image: the list holds the placeholder and the message has been saved
C33_Witness ==
    \E p \in Procs :
        /\ rq[p].pc = "finished" /\ EmittedBy(rq[p], "done")
        /\ AssistantSaves(rq[p]) = 1
        /\ \E i \in 1..Len(rq[p].allStreamedBlocks) :
              /\ rq[p].events[i].type = "image"
              /\ rq[p].allStreamedBlocks[i].content = <<"[base64]">>
              /\ rq[p].events[i].content # <<"[base64]">>

\* the step ends the call i with a failed fetch
EndsFailed(i) ==
    /\ cache.calls[i].pc # "returned"
    /\ cache'.calls[i].pc = "returned"
    /\ FetchFailed(cache'.calls[i])

\* the call read its document and returned the value made of it
ReadValue(c, doc, value) ==
    /\ c.doc = doc /\ c.read = "done" /\ ~FetchFailed(c)
    /\ c.result = Some(value)

\* C34: a call that ends with a failed fetch leaves both caches as they
\* were and returns the fallback, whatever entry the cache holds; every
\* cache entry holds a value that a successful read produced; so a call
\* that finds no fresh entry fetches again.
C34_FailedFetchLeavesCache ==
    /\ [][\A i \in 1..Len(cache.calls) :
            EndsFailed(i) =>
                /\ cache'.skill = cache.skill
                /\ cache'.packages = cache.packages
                /\ cache'.calls[i].result =
                      Some(Fallback(cache.calls[i].doc))]_vars
    /\ [](\A doc \in Docs :
            ~IsNull(cache[doc]) =>
                \E i \in 1..Len(cache.calls) :
                    ReadValue(cache.calls[i], doc, Val(cache[doc]).value))
    /\ [][CallBegins =>
            LET c == cache'.calls[Len(cache'.calls)]
            IN  (IsNull(cache[c.doc]) \/ Age(cache[c.doc]) >= CACHE_TTL_MS)
                    => c.pc = "fetching"]_vars

\* the entry written at 0 is one hour old; the second call's fetch was
\* rejected and it returned the fallback, not the stale value, and the
\* entry is still the one written at 0
C34_Witness ==
    /\ Len(cache.calls) = 2
    /\ ReadValue(cache.calls[1], "skill", <<"<skills>", "live rules", "</skills>">>)
    /\ cache.calls[2].doc = "skill" /\ cache.calls[2].net = "rejected"
    /\ cache.calls[2].result = Some(FALLBACK_SKILL_CONTENT)
    /\ cache.skill = Some([value |-> <<"<skills>", "live rules", "</skills>">>,
                            fetchedAt |-> 0])
    /\ cache.now = CACHE_TTL_MS

\* C35: getOrCreateSandbox never returns a handle on which closeSandbox
\* has invoked kill.
C35_NoKilledHandleReturned ==
    [][\A p \in Procs :
          (Returns(p) /\ rq'[p].fn = "getOrCreateSandbox") =>
              ~sandboxes'[rq'[p].sandbox].killed]_vars

\* the user messages of the first n submitted queries, in submission order
SubmittedMessages(n) ==
    [i \in 1..n |-> ApiMessage(page.submits[i].query, page.submits[i].files)]

\* C36: the history sent with the n-th submitted query is exactly the user
\* messages of the n queries submitted so far, in submission order, each
\* with role user.
C36_HistoryIsAllUserMessages ==
    \A j \in 1..Len(page.requests) :
        /\ page.requests[j].messages = SubmittedMessages(page.requests[j].submit)
        /\ \A i \in 1..Len(page.requests[j].messages) :
              page.requests[j].messages[i].role = "user"

\* the sandboxes registered under a key of mode m
RegisteredFor(m) == {activeSandboxes[Key(s, m)] : s \in Sessions} \ {0}

\* C37: MP_API_KEY is injected only into sandboxes created for mode spinel:
\* no call of getOrCreateSandbox for mode vanilla ever awaits the injection
\* step, no sandbox created for vanilla has had it run, and so none
\* registered under a vanilla key has; the sandboxes that have had it run
\* were created for spinel with MP_API_KEY set
C37_SecretOnlyInSpinel ==
    /\ [](\A p \in Procs : rq[p].pc = "injecting" => rq[p].mode = "spinel")
    /\ [](\A h \in 1..Len(sandboxes) :
             sandboxes[h].secret => sandboxes[h].mode = "spinel" /\ cfg.mpKey)
    /\ [](\A h \in RegisteredFor("vanilla") :
             sandboxes[h].mode = "vanilla" /\ ~sandboxes[h].secret)

\* with MP_API_KEY set, one session holds a vanilla sandbox without the
\* secret beside a spinel sandbox with it
C37_Witness ==
    /\ cfg.mpKey
    /\ \E s \in Sessions :
         /\ activeSandboxes[Key(s, "vanilla")] # 0
         /\ activeSandboxes[Key(s, "spinel")] # 0
         /\ ~sandboxes[activeSandboxes[Key(s, "vanilla")]].secret
         /\ sandboxes[activeSandboxes[Key(s, "spinel")]].secret

====
